---- MODULE Spec2Model ----
(***************************************************************************)
(* Autism screening questionnaire: the risk-scoring routine of             *)
(* PredictionInterface (calculatePrediction), its submission handler       *)
(* (handleSubmit), the wizard around them and the local session history.   *)
(*                                                                         *)
(* Numbers.  The scoring arithmetic of the source is done on JavaScript    *)
(* doubles.  Every quantity it produces for a 10-answer input is a         *)
(* multiple of a fixed unit, so the model computes in exact integers:      *)
(*   riskScore        in units of 1/20000        (ScoreUnit)               *)
(*   riskPercentage   in units of 1/200 percent  (= riskScore * 100)       *)
(*   confidence       in units of 1/7000         (ConfUnit)                *)
(* No reachable riskPercentage lies on a threshold (35, 50, 65), so the    *)
(* rounding of doubles cannot change a comparison of the source.           *)
(***************************************************************************)
EXTENDS Integers, Sequences, FiniteSets, TLC

VARIABLES
    formData,      \* useState<PredictionInput>: [age, gender, responses]
    currentStep,   \* useState(0): 0 demographics, 1..10 questions, 11 review
    prediction,    \* useState<PredictionResult | null>
    loading,       \* useState(false)
    submitPc,      \* position of the running handleSubmit: idle / delay / insert
    closure,       \* formData and user captured by the running handleSubmit
    history,       \* localStorage['autism_screening_history'], parsed
    rows,          \* rows of public.prediction_results
    user,          \* useAuth().user: a user id, or NoUser
    now,           \* the clock read by Date.now() / new Date()
    toasts,        \* titles of the toasts raised so far
    edits,         \* number of formData changes the user has made
    calcPc,        \* direct calls of calculatePrediction: ready / once / twice
    calcOut,       \* what the last direct call returned
    calcPrev,      \* what the direct call before it returned
    log,           \* what handleSubmit has called so far, in order, each call with
                   \* the values its argument is made from: [op, arg]
    tabPc,         \* per browser tab: position of its running saveSession
    tabLocal,      \* per browser tab: the history array of that saveSession
    userRoles,     \* rows of public.user_roles: <<user_id, role>>
    selected,      \* the last statement on prediction_results: who sent it, its rows
    route,         \* a ProtectedRoute: its props, what useAuth() returns, what
                   \* it has rendered and where its effect has navigated
    profiles,      \* public.profiles: approval_status per id, "none" without a row
    sent,          \* the last statement a client sent on profiles or user_roles
    panel          \* per admin session: the AdminPanel's state, its requests in
                   \* flight and the realtime events not yet delivered to it

\* The browser tabs' saveSession calls, and the database session state.
tabVars == <<tabPc, tabLocal>>
dbVars == <<userRoles, selected>>

\* The protected routes and the admin panel.
adminVars == <<route, profiles, sent, panel>>

vars == <<formData, currentStep, prediction, loading, submitPc, closure,
          history, rows, user, now, toasts, edits, calcPc, calcOut, calcPrev,
          log, tabVars, dbVars, adminVars>>

-----------------------------------------------------------------------------
(* Bounds of the model *)

\* Response vectors are every multiset of answers, laid out in category
\* order and rotated left by 0..MaxRot places.
MaxRot == 1
\* The clock takes the values 0..MaxClock.
MaxClock == 2
\* The user changes formData (age, gender or a response) at most MaxEdits
\* times per run of the wizard.
MaxEdits == 1
\* Each admin session presses Approve or Reject at most MaxPresses times.
MaxPresses == 1
\* An admin session has at most MaxInFlight fetchProfiles calls in flight.
MaxInFlight == 2
\* At most MaxSubmits submissions are started per run (the clock of a run
\* advances by one at every firing of the submission timer).
MaxSubmits == 1
MaxSessions == 2
MaxSaves == 12
MaxRows == 2

-----------------------------------------------------------------------------
(* Program constants *)

NumQuestions == 10
MinAge == 2
MaxAge == 14
HistoryLimit == 10
ReviewStep == 11

\* Units of the exact arithmetic (see the header).
ScoreUnit == 20000
ConfUnit == 7000

\* A nullable value is a sequence of at most one element: null is the empty
\* sequence, a present value v is Some(v) and is read back with Value.
NULL == <<>>
Some(v) == <<v>>
Value(x) == x[1]
NoUser == "no-user"
NaN == "NaN"
Undefined == "undefined"

Responses == {"never", "rarely", "sometimes", "often", "always"}
Genders == {"M", "F"}

QUESTIONNAIRE_ITEMS == <<
    "Does your child make eye contact when you call their name?",
    "Does your child show interest in other children or prefer to play alone?",
    "Does your child use gestures like pointing or waving to communicate?",
    "Does your child understand and follow simple instructions?",
    "Does your child have difficulty with changes in routine or environment?",
    "Does your child show repetitive behaviors or intense interests in specific topics?",
    "Does your child have conversations or mainly speaks in single words?",
    "Does your child respond appropriately to emotions of others?",
    "Does your child have unusual sensory reactions (sounds, textures, lights)?",
    "Does your child engage in pretend or imaginative play?" >>

RecommendationHigh ==
    "We strongly recommend consulting with a pediatric developmental specialist or child psychologist for a comprehensive evaluation. Early screening and intervention can significantly improve outcomes."
RecommendationMedium ==
    "While the assessment shows moderate indicators, we recommend discussing these observations with your pediatrician. Continue monitoring your child's development closely."
RecommendationLow ==
    "The assessment suggests typical development patterns. Continue regular developmental check-ups with your pediatrician and implement the supportive strategies provided below."

-----------------------------------------------------------------------------
(* dataProcessing.responseToNumber *)

\* map[response]: a key that is not in the map gives undefined.
responseToNumber(response) ==
    CASE response = "never" -> 0
      [] response = "rarely" -> 1
      [] response = "sometimes" -> 2
      [] response = "often" -> 3
      [] response = "always" -> 4
      [] OTHER -> Undefined

\* Whether map[response] is a number.
Recognized(response) == response \in Responses

\* sum + undefined is NaN, and NaN stays NaN: the reduce is a number only if
\* every element is recognized.
AllRecognized(responses) ==
    \A i \in DOMAIN responses : Recognized(responses[i])

RECURSIVE SumFrom(_, _)
SumFrom(responses, i) ==
    IF i > Len(responses) THEN 0
    ELSE responseToNumber(responses[i]) + SumFrom(responses, i + 1)

\* Mutant: the reduce misses the first response.
TotalScoreOf_SkipFirst(responses) ==
    IF AllRecognized(responses) THEN SumFrom(responses, 2) ELSE NaN

\* formData.responses.reduce((sum, response) => sum + responseToNumber(response), 0)
TotalScoreOf(responses) ==
    IF AllRecognized(responses) THEN SumFrom(responses, 1) ELSE NaN

\* responses.filter(r => r \in kinds).length
CountIn(responses, kinds) ==
    Cardinality({i \in DOMAIN responses : responses[i] \in kinds})

-----------------------------------------------------------------------------
(* PredictionInterface.calculatePrediction, in the order of the source *)

\* if (age <= 3) riskScore += 0.05; else if (age >= 10) riskScore += 0.03;
\* in hundredths.
AgeAdjustment(age) ==
    IF age <= 3 THEN 5 ELSE IF age >= 10 THEN 3 ELSE 0

\* if (gender === 'M') riskScore += 0.05;   in hundredths.
GenderAdjustment(gender) ==
    IF gender = "M" THEN 5 ELSE 0

\* The riskScore accumulated before the weighting, in hundredths.
DemographicAdjustment(fd) ==
    AgeAdjustment(fd.age) + GenderAdjustment(fd.gender)

\* Mutant: the weighting of the legacy routine, normalizedScore * 0.8 added
\* to the unweighted adjustment.
WeightedScore_Legacy(totalScore, demographic) ==
    totalScore * 400 + demographic * 200

\* riskScore = normalizedScore * 0.85 + riskScore * 0.15, normalizedScore =
\* totalScore / 40.  In ScoreUnits: 0.85/40 = 425/20000, 0.15/100 = 30/20000.
WeightedScore(totalScore, demographic) ==
    totalScore * 425 + demographic * 30

highRiskResponses(responses) == CountIn(responses, {"always", "often"})

\* Mutant: only 'never' counts as low engagement.
lowEngagementResponses_NeverOnly(responses) == CountIn(responses, {"never"})

lowEngagementResponses(responses) == CountIn(responses, {"never", "rarely"})

\* Mutant: the bonus of the legacy routine, 0.2.
HighRiskBonus_Legacy(responses) ==
    IF highRiskResponses(responses) >= 6 THEN 4000 ELSE 0

\* Mutant: the bonus is given from five responses on.
HighRiskBonus_FromFive(responses) ==
    IF highRiskResponses(responses) >= 5 THEN 2000 ELSE 0

\* if (highRiskResponses >= 6) riskScore += 0.1;   in ScoreUnits.
HighRiskBonus(responses) ==
    IF highRiskResponses(responses) >= 6 THEN 2000 ELSE 0

\* Mutant: the bonus of the legacy routine, 0.15.
LowEngagementBonus_Legacy(responses) ==
    IF lowEngagementResponses(responses) >= 7 THEN 3000 ELSE 0

\* if (lowEngagementResponses >= 7) riskScore += 0.05;   in ScoreUnits.
LowEngagementBonus(responses) ==
    IF lowEngagementResponses(responses) >= 7 THEN 1000 ELSE 0

\* riskScore just before Math.max(0, Math.min(1, riskScore)), in ScoreUnits;
\* for recognized responses only.
UnclampedRiskScore(fd) ==
    WeightedScore(SumFrom(fd.responses, 1), DemographicAdjustment(fd))
        + HighRiskBonus(fd.responses) + LowEngagementBonus(fd.responses)

Max(a, b) == IF a >= b THEN a ELSE b
Min(a, b) == IF a <= b THEN a ELSE b

\* riskScore = Math.max(0, Math.min(1, riskScore)); riskPercentage = riskScore * 100.
\* One ScoreUnit of riskScore is 1/200 percent of riskPercentage.
RiskPercentageOf(fd) ==
    Max(0, Min(ScoreUnit, UnclampedRiskScore(fd)))

\* Percent to the unit of riskPercentage.
Pct(p) == p * 200

\* prediction = riskPercentage >= 50 ? 1 : 0
PredictionOf(riskPercentage) ==
    IF riskPercentage >= Pct(50) THEN 1 ELSE 0

\* Mutant: the thresholds of the legacy routine, 30 and 70.
RiskLevelOf_Legacy(riskPercentage) ==
    IF riskPercentage < Pct(30) THEN "Low"
    ELSE IF riskPercentage < Pct(70) THEN "Medium"
    ELSE "High"

\* the if / else if / else chain on riskPercentage
RiskLevelOf(riskPercentage) ==
    IF riskPercentage < Pct(35) THEN "Low"
    ELSE IF riskPercentage < Pct(65) THEN "Medium"
    ELSE "High"

\* confidence before the clamp, in ConfUnits: (35 - p) / 35, 0.7, (p - 65) / 35.
\* One unit of riskPercentage is 1/7000 of a 35 percent span.
RawConfidenceOf(riskPercentage) ==
    IF riskPercentage < Pct(35) THEN Pct(35) - riskPercentage
    ELSE IF riskPercentage < Pct(65) THEN (7 * ConfUnit) \div 10
    ELSE riskPercentage - Pct(65)

\* Mutant: the lower clamp Math.max(0.6, .) is missing.
ConfidenceOf_NoFloor(riskPercentage) ==
    Min((95 * ConfUnit) \div 100, RawConfidenceOf(riskPercentage))

\* confidence = Math.min(0.95, Math.max(0.6, confidence)), in ConfUnits.
ConfidenceOf(riskPercentage) ==
    Min((95 * ConfUnit) \div 100,
        Max((6 * ConfUnit) \div 10, RawConfidenceOf(riskPercentage)))

\* Mutant: the question of entry index is QUESTIONNAIRE_ITEMS[index + 1].
ScoreBreakdownOf_NextQuestion(responses) ==
    [index \in 1..Len(responses) |->
        [question |-> IF index + 1 <= Len(QUESTIONNAIRE_ITEMS)
                      THEN QUESTIONNAIRE_ITEMS[index + 1] ELSE Undefined,
         response |-> responses[index],
         score    |-> responseToNumber(responses[index])]]

\* responses.map((response, index) => ({question: QUESTIONNAIRE_ITEMS[index],
\* response, score: responseToNumber(response)}))
ScoreBreakdownOf(responses) ==
    [index \in 1..Len(responses) |->
        [question |-> IF index <= Len(QUESTIONNAIRE_ITEMS)
                      THEN QUESTIONNAIRE_ITEMS[index] ELSE Undefined,
         response |-> responses[index],
         score    |-> responseToNumber(responses[index])]]

\* Mutant: Medium shares the text of Low.
RecommendationOf_TwoTexts(riskLevel) ==
    IF riskLevel = "High" THEN RecommendationHigh ELSE RecommendationLow

RecommendationOf(riskLevel) ==
    IF riskLevel = "High" THEN RecommendationHigh
    ELSE IF riskLevel = "Medium" THEN RecommendationMedium
    ELSE RecommendationLow

\* new Date().toISOString() at clock value t.
ISOString(t) == <<"iso", t>>

\* calculatePrediction() of a render whose formData is fd, called at time t.
\* It validates nothing and throws nothing.  With an unrecognized response
\* the sum is NaN: every comparison with NaN is false (prediction 0, riskLevel
\* High by the final else) and Math.min / Math.max return NaN.
calculatePrediction(fd, t) ==
    IF AllRecognized(fd.responses)
    THEN LET riskPercentage == RiskPercentageOf(fd)
             riskLevel == RiskLevelOf(riskPercentage)
         IN  [prediction     |-> PredictionOf(riskPercentage),
              confidence     |-> ConfidenceOf(riskPercentage),
              riskLevel      |-> riskLevel,
              recommendation |-> RecommendationOf(riskLevel),
              riskPercentage |-> riskPercentage,
              scoreBreakdown |-> ScoreBreakdownOf(fd.responses),
              timestamp      |-> ISOString(t)]
    ELSE [prediction     |-> 0,
          confidence     |-> NaN,
          riskLevel      |-> "High",
          recommendation |-> RecommendationOf("High"),
          riskPercentage |-> NaN,
          scoreBreakdown |-> ScoreBreakdownOf(fd.responses),
          timestamp      |-> ISOString(t)]

-----------------------------------------------------------------------------
(* The legacy PredictionInterface.calculatePrediction.  Its riskScore is    *)
(* kept in units of 1/100: every term of the sum is a multiple of 0.01.     *)

LegacyUnit == 100
LegacyMaxAge == 12

\* age <= 3: 0.1; age >= 10: 0.05.
LegacyAgeFactor(age) ==
    IF age <= 3 THEN 10 ELSE IF age >= 10 THEN 5 ELSE 0

\* gender === 'M': 0.1.
LegacyGenderFactor(gender) == IF gender = "M" THEN 10 ELSE 0

\* (totalScore / 40) * 0.8, then +0.2 with six or more always/often and
\* +0.15 with six or more never/rarely; clamped to [0, 1].
LegacyRiskScore(fd) ==
    LET sum == LegacyAgeFactor(fd.age) + LegacyGenderFactor(fd.gender)
               + 2 * TotalScoreOf(fd.responses)
               + (IF highRiskResponses(fd.responses) >= 6 THEN 20 ELSE 0)
               + (IF lowEngagementResponses(fd.responses) >= 6 THEN 15 ELSE 0)
    IN  Max(0, Min(LegacyUnit, sum))

\* riskScore < 0.3: Low; < 0.7: Medium; else High.
LegacyRiskLevelOf(riskScore) ==
    IF riskScore < 30 THEN "Low"
    ELSE IF riskScore < 70 THEN "Medium"
    ELSE "High"

LegacyRecommendationHigh ==
    "We recommend consulting with a pediatric developmental specialist or child psychologist for a comprehensive evaluation. Early screening and intervention can significantly improve outcomes."
LegacyRecommendationMedium ==
    "While the current assessment suggests lower risk, continue monitoring your child's development and consult with your pediatrician if you have concerns."
LegacyRecommendationLow ==
    "The assessment suggests typical development patterns. Continue regular developmental check-ups with your pediatrician."

\* Mutant: the legacy component runs the current routine.
legacyCalculatePrediction_Current(fd) == calculatePrediction(fd, 0)

\* The legacy calculatePrediction() of a render whose formData is fd.
legacyCalculatePrediction(fd) ==
    LET riskScore == LegacyRiskScore(fd)
        predicted == IF riskScore >= 60 THEN 1 ELSE 0
        riskLevel == LegacyRiskLevelOf(riskScore)
    IN  [prediction     |-> predicted,
         confidence     |-> IF riskScore >= 60 THEN riskScore
                            ELSE LegacyUnit - riskScore,
         riskLevel      |-> riskLevel,
         recommendation |-> IF predicted = 1 THEN LegacyRecommendationHigh
                            ELSE IF riskLevel = "Medium"
                                 THEN LegacyRecommendationMedium
                                 ELSE LegacyRecommendationLow]

-----------------------------------------------------------------------------
(* sessionStorage: saveSession / getSessionHistory *)

\* JSON.parse(JSON.stringify(session)).  Strings and finite numbers come back
\* unchanged; NaN is written as null and a key whose value is undefined is
\* dropped.  A result holds NaN and undefined exactly when one of its responses
\* is unrecognized.
JSONEntry(entry) ==
    IF Recognized(entry.response) THEN entry
    ELSE [question |-> entry.question, response |-> entry.response]

JSONRoundTrip(session) ==
    IF \A i \in DOMAIN session.result.scoreBreakdown :
            Recognized(session.result.scoreBreakdown[i].response)
    THEN session
    ELSE [session EXCEPT
            !.totalScore = NULL,
            !.result = [@ EXCEPT
                !.confidence = NULL,
                !.riskPercentage = NULL,
                !.scoreBreakdown =
                    [i \in DOMAIN @ |-> JSONEntry(@[i])]]]

\* getSessionHistory(): the stored list (empty when nothing is stored).
getSessionHistory(stored) == stored

\* Mutant: saveSession without the slice(0, 10).
saveSession_NoSlice(stored, session) ==
    <<session>> \o stored

\* saveSession(session): history.unshift(session); history.slice(0, 10);
\* the value is what localStorage holds afterwards.
saveSession(stored, session) ==
    LET unshifted == <<JSONRoundTrip(session)>> \o getSessionHistory(stored)
    IN  SubSeq(unshifted, 1, Min(HistoryLimit, Len(unshifted)))

\* Mutant: deleteSession keeps the entries it should remove and removes the
\* others.
deleteSession_KeepsMatch(stored, id) ==
    SelectSeq(getSessionHistory(stored), LAMBDA session : session.id = id)

\* deleteSession(id): history.filter(session => session.id !== id), stored.
deleteSession(stored, id) ==
    SelectSeq(getSessionHistory(stored), LAMBDA session : session.id # id)

\* clearSessionHistory(): localStorage.removeItem; reads as the empty list.
clearSessionHistory(stored) == <<>>

-----------------------------------------------------------------------------
(* PredictionInterface: state after construction *)

DefaultFormData ==
    [age |-> 2, gender |-> "M",
     responses |-> [i \in 1..NumQuestions |-> "sometimes"]]

Users == {NoUser, "user-1"}

\* Two tabs of one browser share localStorage.
Tabs == {"tab-1", "tab-2"}

\* Part of every initial state: nothing submitted, stored or called yet.
Untouched ==
    /\ prediction = NULL
    /\ loading = FALSE
    /\ submitPc = "idle"
    /\ closure = NULL
    /\ history = <<>>
    /\ rows = <<>>
    /\ now = 0
    /\ toasts = <<>>
    /\ edits = 0
    /\ calcPc = "ready"
    /\ calcOut = NULL
    /\ calcPrev = NULL
    /\ log = <<>>
    /\ tabPc = [tab \in Tabs |-> "idle"]
    /\ tabLocal = [tab \in Tabs |-> <<>>]
    /\ userRoles = {}
    /\ selected = NULL
    /\ route = [requireAdmin |-> FALSE, isLoading |-> TRUE, user |-> "no-user",
                isApproved |-> FALSE, isAdmin |-> FALSE,
                rendered |-> "none", navigated |-> "none", pc |-> "render"]
    /\ profiles = [id \in {"user-1", "user-2"} |-> "none"]
    /\ sent = NULL
    /\ panel = [s \in {"admin-1", "admin-2"} |->
                  [mounted |-> FALSE,
                   profiles |-> [id \in {"user-1", "user-2"} |-> "none"],
                   fetches |-> <<>>, writes |-> <<>>, events |-> 0,
                   presses |-> 0, failed |-> FALSE]]

Init ==
    /\ formData = DefaultFormData
    /\ currentStep = 0
    /\ user \in Users
    /\ Untouched

-----------------------------------------------------------------------------
(* PredictionInterface: the wizard's event handlers.  Every input view is   *)
(* rendered only while prediction is null.                                  *)

\* Select onValueChange: age = parseInt(value), value one of "2".."14".
SetAge(age) ==
    /\ prediction = NULL /\ currentStep = 0
    /\ age # formData.age
    /\ formData' = [formData EXCEPT !.age = age]
    /\ edits < MaxEdits
    /\ edits' = edits + 1
    /\ UNCHANGED <<adminVars, currentStep, prediction, loading, submitPc, closure, history,
                   rows, user, now, toasts, calcPc, calcOut, calcPrev,
                   log, tabVars, dbVars>>

\* RadioGroup onValueChange: gender = value, "M" or "F".
SetGender(gender) ==
    /\ prediction = NULL /\ currentStep = 0
    /\ gender # formData.gender
    /\ formData' = [formData EXCEPT !.gender = gender]
    /\ edits < MaxEdits
    /\ edits' = edits + 1
    /\ UNCHANGED <<adminVars, currentStep, prediction, loading, submitPc, closure, history,
                   rows, user, now, toasts, calcPc, calcOut, calcPrev,
                   log, tabVars, dbVars>>

\* "Continue to Questions": setCurrentStep(1).
ContinueToQuestions ==
    /\ prediction = NULL /\ currentStep = 0
    /\ currentStep' = 1
    /\ UNCHANGED <<adminVars, formData, prediction, loading, submitPc, closure, history,
                   rows, user, now, toasts, edits, calcPc, calcOut, calcPrev,
                   log, tabVars, dbVars>>

\* Mutant: the answer is written one place too far (index currentStep
\* instead of currentStep - 1); past the end the array grows.
handleResponseChange_OffByOne(response) ==
    /\ prediction = NULL
    /\ currentStep >= 1 /\ currentStep <= NumQuestions
    /\ formData' = [formData EXCEPT !.responses =
                        IF currentStep + 1 <= Len(@)
                        THEN [@ EXCEPT ![currentStep + 1] = response]
                        ELSE Append(@, response)]
    /\ formData' # formData
    /\ edits < MaxEdits
    /\ edits' = edits + 1
    /\ UNCHANGED <<adminVars, currentStep, prediction, loading, submitPc, closure, history,
                   rows, user, now, toasts, calcPc, calcOut, calcPrev,
                   log, tabVars, dbVars>>

\* handleResponseChange(questionIndex, response) from the question step's
\* RadioGroup; questionIndex = currentStep - 1 (0-based), here 1-based.
handleResponseChange(response) ==
    /\ prediction = NULL
    /\ currentStep >= 1 /\ currentStep <= NumQuestions
    /\ response # formData.responses[currentStep]
    /\ formData' = [formData EXCEPT !.responses[currentStep] = response]
    /\ edits < MaxEdits
    /\ edits' = edits + 1
    /\ UNCHANGED <<adminVars, currentStep, prediction, loading, submitPc, closure, history,
                   rows, user, now, toasts, calcPc, calcOut, calcPrev,
                   log, tabVars, dbVars>>

\* "Previous": setCurrentStep(prev => prev - 1).
PreviousQuestion ==
    /\ prediction = NULL
    /\ currentStep >= 1 /\ currentStep <= NumQuestions
    /\ currentStep' = currentStep - 1
    /\ UNCHANGED <<adminVars, formData, prediction, loading, submitPc, closure, history,
                   rows, user, now, toasts, edits, calcPc, calcOut, calcPrev,
                   log, tabVars, dbVars>>

\* Mutant: "Next Question" moves two steps on.
NextQuestion_SkipsOne ==
    /\ prediction = NULL
    /\ currentStep >= 1 /\ currentStep <= NumQuestions
    /\ currentStep' = Min(currentStep + 2, ReviewStep)
    /\ UNCHANGED <<adminVars, formData, prediction, loading, submitPc, closure, history,
                   rows, user, now, toasts, edits, calcPc, calcOut, calcPrev,
                   log, tabVars, dbVars>>

\* "Next Question" / "Review Answers": if (currentStep < 11) step + 1; the
\* button is disabled while the step's response is empty.
NextQuestion ==
    /\ prediction = NULL
    /\ currentStep >= 1 /\ currentStep <= NumQuestions
    /\ formData.responses[currentStep] # ""
    /\ currentStep < ReviewStep
    /\ currentStep' = currentStep + 1
    /\ UNCHANGED <<adminVars, formData, prediction, loading, submitPc, closure, history,
                   rows, user, now, toasts, edits, calcPc, calcOut, calcPrev,
                   log, tabVars, dbVars>>

\* The review view is the fall-through render: no prediction, step neither 0
\* nor 1..10.
ReviewShown ==
    /\ prediction = NULL
    /\ currentStep # 0
    /\ ~(currentStep >= 1 /\ currentStep <= NumQuestions)

\* "Back to Questions": setCurrentStep(10); never disabled.
BackToQuestions ==
    /\ ReviewShown
    /\ currentStep' = NumQuestions
    /\ UNCHANGED <<adminVars, formData, prediction, loading, submitPc, closure, history,
                   rows, user, now, toasts, edits, calcPc, calcOut, calcPrev,
                   log, tabVars, dbVars>>

\* resetAssessment ("Take New Assessment" of the results view).
resetAssessment ==
    /\ prediction # NULL
    /\ currentStep' = 0
    /\ formData' = DefaultFormData
    /\ prediction' = NULL
    /\ UNCHANGED <<adminVars, loading, submitPc, closure, history, rows, user, now,
                   toasts, edits, calcPc, calcOut, calcPrev,
                   log, tabVars, dbVars>>

-----------------------------------------------------------------------------
(* PredictionInterface.handleSubmit.  It is the handleSubmit of the render  *)
(* the button was pressed in: formData, user and calculatePrediction are    *)
(* that render's, also after the awaits.                                    *)

\* The row handed to supabase.from('prediction_results').insert(...).
\* risk_percentage is result.riskPercentage || 0: NaN and 0 both give 0.
PredictionRow(fd, userId, result, totalScore) ==
    [user_id           |-> userId,
     age               |-> fd.age,
     gender            |-> fd.gender,
     q                 |-> [i \in 1..NumQuestions |->
                               IF i <= Len(fd.responses)
                               THEN fd.responses[i] ELSE Undefined],
     total_score       |-> totalScore,
     risk_level        |-> result.riskLevel,
     confidence        |-> result.confidence,
     risk_percentage   |-> IF AllRecognized(fd.responses)
                           THEN result.riskPercentage ELSE 0,
     recommendation    |-> result.recommendation,
     prediction_result |-> result]

\* RLS policy "Users can insert own predictions": WITH CHECK (auth.uid() = user_id).
\* Without a session auth.uid() is NULL and the comparison is not true.
InsertAllowed(uid, row) == uid # NoUser /\ uid = row.user_id

\* Mutant: the submit button is not disabled while loading.
PressSubmit_NoGuard ==
    /\ ReviewShown
    /\ loading' = TRUE
    /\ submitPc' = "delay"
    /\ closure' = Some([formData |-> formData, user |-> user,
                         result |-> NULL, totalScore |-> NULL])
    /\ log' = Append(log, [op |-> "submit",
                            arg |-> [formData |-> formData, user |-> user]])
    /\ UNCHANGED <<adminVars, formData, currentStep, prediction, history, rows, user,
                   now, toasts, edits, calcPc, calcOut, calcPrev,
                   tabVars, dbVars>>

\* Click on "Get Assessment Results" (disabled={loading}): setLoading(true),
\* then the 1.5 s timer is started.
PressSubmit ==
    /\ ReviewShown
    /\ ~loading
    /\ loading' = TRUE
    /\ submitPc' = "delay"
    /\ closure' = Some([formData |-> formData, user |-> user,
                         result |-> NULL, totalScore |-> NULL])
    /\ log' = Append(log, [op |-> "submit",
                            arg |-> [formData |-> formData, user |-> user]])
    /\ UNCHANGED <<adminVars, formData, currentStep, prediction, history, rows, user,
                   now, toasts, edits, calcPc, calcOut, calcPrev,
                   tabVars, dbVars>>

\* Mutant: handleSubmit ends without setLoading(false).
FinishSubmit_StaysLoading(raised) ==
    /\ toasts' = toasts \o raised \o <<"Assessment Complete">>
    /\ loading' = loading
    /\ submitPc' = "idle"
    /\ closure' = NULL

\* The end of handleSubmit: toast "Assessment Complete", setLoading(false).
FinishSubmit(raised) ==
    /\ toasts' = toasts \o raised \o <<"Assessment Complete">>
    /\ loading' = FALSE
    /\ submitPc' = "idle"
    /\ closure' = NULL

\* `session_${Date.now()}` at clock value t.
SessionId(t) == <<"session_", t>>

\* The object handleSubmit hands to saveSession at clock value t.
SessionOf(fd, result, totalScore, t) ==
    [id         |-> SessionId(t),
     timestamp  |-> ISOString(t),
     age        |-> fd.age,
     gender     |-> fd.gender,
     result     |-> result,
     totalScore |-> totalScore]

\* The timer fires: calculatePrediction(), setPrediction(result), the total
\* score, saveSession(...), and with a user the insert is sent.
TimerFires ==
    /\ submitPc = "delay"
    /\ LET t == now + 1
           fd == Value(closure).formData
           userId == Value(closure).user
           result == calculatePrediction(fd, t)
           totalScore == TotalScoreOf(fd.responses)
           session == SessionOf(fd, result, totalScore, t)
           made == [formData |-> fd, user |-> userId, at |-> t]
           called == <<[op |-> "calculatePrediction", arg |-> made],
                       [op |-> "saveSession", arg |-> made]>>
       IN  /\ now' = t
           /\ prediction' = Some(result)
           /\ history' = saveSession(history, session)
           /\ IF userId # NoUser
              THEN /\ submitPc' = "insert"
                   /\ closure' = Some([Value(closure) EXCEPT
                                            !.result = Some(result),
                                            !.totalScore = Some(totalScore)])
                   /\ log' = log \o called \o <<[op |-> "insert", arg |-> made]>>
                   /\ UNCHANGED <<loading, toasts>>
              ELSE /\ log' = log \o called
                   /\ FinishSubmit(<<>>)
    /\ UNCHANGED <<adminVars, formData, currentStep, rows, user, edits,
                   calcPc, calcOut, calcPrev, tabVars, dbVars>>

\* Mutant: handleSubmit returns where the insert has failed.
InsertReturns_ReturnOnError(ok) ==
    /\ submitPc = "insert"
    /\ LET submitted == Value(closure)
           row == PredictionRow(submitted.formData, submitted.user,
                                Value(submitted.result),
                                Value(submitted.totalScore))
       IN  IF ok
           THEN /\ InsertAllowed(submitted.user, row)
                /\ rows' = Append(rows, row)
                /\ FinishSubmit(<<>>)
           ELSE /\ rows' = rows
                /\ toasts' = Append(toasts, "Warning")
                /\ submitPc' = "idle"
                /\ closure' = NULL
                /\ loading' = loading
    /\ UNCHANGED <<adminVars, formData, currentStep, prediction, history, user, now,
                   edits, calcPc, calcOut, calcPrev,
                   log, tabVars, dbVars>>

\* The insert call returns: with error === null the row is stored; with an
\* error nothing is stored and the "Warning" toast is raised.
InsertReturns(ok) ==
    /\ submitPc = "insert"
    /\ LET submitted == Value(closure)
           row == PredictionRow(submitted.formData, submitted.user,
                                Value(submitted.result),
                                Value(submitted.totalScore))
       IN  IF ok
           THEN /\ InsertAllowed(submitted.user, row)
                /\ rows' = Append(rows, row)
                /\ FinishSubmit(<<>>)
           ELSE /\ rows' = rows
                /\ FinishSubmit(<<"Warning">>)
    /\ UNCHANGED <<adminVars, formData, currentStep, prediction, history, user, now,
                   edits, calcPc, calcOut, calcPrev,
                   log, tabVars, dbVars>>

\* The wizard: every handler, from the state after construction.
Next ==
    \/ \E age \in MinAge..MaxAge : SetAge(age)
    \/ \E gender \in Genders : SetGender(gender)
    \/ ContinueToQuestions
    \/ \E response \in Responses : handleResponseChange(response)
    \/ PreviousQuestion
    \/ NextQuestion
    \/ BackToQuestions
    \/ (now < MaxSubmits /\ PressSubmit)
    \/ TimerFires
    \/ \E ok \in BOOLEAN : InsertReturns(ok)
    \/ resetAssessment

Spec == Init /\ [][Next]_vars

-----------------------------------------------------------------------------
(* Inputs of the scoring routine *)

ResponseOrder == <<"never", "rarely", "sometimes", "often", "always">>

\* How many answers of each category, in ResponseOrder: every split of the
\* ten answers over the five categories.
AnswerCounts ==
    {<<a, b, c, d, NumQuestions - (a + b + c + d)>> :
        <<a, b, c, d>> \in
            {t \in (0..NumQuestions) \X (0..NumQuestions)
                   \X (0..NumQuestions) \X (0..NumQuestions) :
                t[1] + t[2] + t[3] + t[4] <= NumQuestions}}

\* The answers of a split, laid out in ResponseOrder.
Layout(counts) ==
    [i \in 1..NumQuestions |->
        IF i <= counts[1] THEN ResponseOrder[1]
        ELSE IF i <= counts[1] + counts[2] THEN ResponseOrder[2]
        ELSE IF i <= counts[1] + counts[2] + counts[3] THEN ResponseOrder[3]
        ELSE IF i <= counts[1] + counts[2] + counts[3] + counts[4]
             THEN ResponseOrder[4]
        ELSE ResponseOrder[5]]

RotateLeft(seq, k) ==
    [i \in 1..Len(seq) |-> seq[((i - 1 + k) % Len(seq)) + 1]]

\* The response vectors the checks range over: every multiset of ten
\* answers, in MaxRot + 1 orders.
InputResponses ==
    {RotateLeft(Layout(counts), k) : counts \in AnswerCounts, k \in 0..MaxRot}

\* What the wizard can hand to calculatePrediction.
ValidInputs ==
    [age : MinAge..MaxAge, gender : Genders, responses : InputResponses]

Uniform(n, response) == [i \in 1..n |-> response]

\* Inputs outside the AssessmentInput shape: an age next to the supported
\* range, nine or eleven responses, a response outside the five categories.
InvalidInputs ==
    [age : {MinAge - 1, MaxAge + 1}, gender : Genders,
     responses : {Uniform(NumQuestions, r) : r \in Responses}]
    \cup
    [age : {MinAge, MaxAge}, gender : Genders,
     responses : {Uniform(NumQuestions - 1, r) : r \in Responses}
                 \cup {Uniform(NumQuestions + 1, r) : r \in Responses}
                 \cup {[Uniform(NumQuestions, r) EXCEPT ![i] = "maybe"] :
                          r \in Responses, i \in {1, NumQuestions}}]

\* The AssessmentInput shape of the specification.
IsValidInput(fd) ==
    /\ fd.age \in MinAge..MaxAge
    /\ fd.gender \in Genders
    /\ Len(fd.responses) = NumQuestions
    /\ \A i \in 1..NumQuestions : fd.responses[i] \in Responses

-----------------------------------------------------------------------------
(* Direct calls of calculatePrediction on one input, at the clock's time *)

InitCalc ==
    /\ formData \in ValidInputs \cup InvalidInputs
    /\ currentStep = ReviewStep
    /\ user = NoUser
    /\ Untouched

\* calculatePrediction() returns; it has no throw and validates nothing, so
\* every call ends by returning a result.
Returned(result) == [outcome |-> "returned", result |-> result]

\* Mutant: calculatePrediction also shows its result (setPrediction).
CallCalc_SetsPrediction ==
    /\ calcPc = "ready"
    /\ calcOut' = Some(Returned(calculatePrediction(formData, now)))
    /\ calcPc' = "once"
    /\ prediction' = Some(calculatePrediction(formData, now))
    /\ UNCHANGED <<adminVars, formData, currentStep, loading, submitPc,
                   closure, history, rows, user, now, toasts, edits, calcPrev,
                   log, tabVars, dbVars>>

CallCalc ==
    /\ calcPc = "ready"
    /\ calcOut' = Some(Returned(calculatePrediction(formData, now)))
    /\ calcPc' = "once"
    /\ UNCHANGED <<adminVars, formData, currentStep, prediction, loading, submitPc,
                   closure, history, rows, user, now, toasts, edits, calcPrev,
                   log, tabVars, dbVars>>

\* Time passes between two calls.
CalcTick ==
    /\ calcPc = "once"
    /\ now < MaxClock
    /\ now' = now + 1
    /\ UNCHANGED <<adminVars, formData, currentStep, prediction, loading, submitPc,
                   closure, history, rows, user, toasts, edits, calcPc,
                   calcOut, calcPrev,
                   log, tabVars, dbVars>>

\* A second call with the same formData.
CallCalcAgain ==
    /\ calcPc = "once"
    /\ calcPrev' = calcOut
    /\ calcOut' = Some(Returned(calculatePrediction(formData, now)))
    /\ calcPc' = "twice"
    /\ UNCHANGED <<adminVars, formData, currentStep, prediction, loading, submitPc,
                   closure, history, rows, user, now, toasts, edits,
                   log, tabVars, dbVars>>

NextCalc == CallCalc \/ CalcTick \/ CallCalcAgain

SpecCalc == InitCalc /\ [][NextCalc]_vars

-----------------------------------------------------------------------------
(* One submission of each input the wizard can hold at the review step *)

InitSubmit ==
    /\ formData \in ValidInputs
    /\ currentStep = ReviewStep
    /\ user \in Users
    /\ Untouched

NextSubmit ==
    \/ PressSubmit
    \/ TimerFires
    \/ \E ok \in BOOLEAN : InsertReturns(ok)

SpecSubmit == InitSubmit /\ [][NextSubmit]_vars

-----------------------------------------------------------------------------
(* The session store on its own: calls of saveSession, deleteSession and    *)
(* clearSessionHistory in any order, from an empty store                    *)

\* saveSession(session) with a session made at the next clock value.
CallSaveSession ==
    /\ now < MaxSaves
    /\ LET t == now + 1
           result == calculatePrediction(formData, t)
       IN  /\ now' = t
           /\ history' = saveSession(history,
                  SessionOf(formData, result, TotalScoreOf(formData.responses), t))
    /\ UNCHANGED <<adminVars, formData, currentStep, prediction, loading, submitPc,
                   closure, rows, user, toasts, edits, calcPc, calcOut,
                   calcPrev, log, tabVars, dbVars>>

\* deleteSession(id), with the id of a session saved before (stored or not).
CallDeleteSession(id) ==
    /\ history' = deleteSession(history, id)
    /\ UNCHANGED <<adminVars, formData, currentStep, prediction, loading, submitPc,
                   closure, rows, user, now, toasts, edits, calcPc, calcOut,
                   calcPrev, log, tabVars, dbVars>>

\* clearSessionHistory().
CallClearSessionHistory ==
    /\ history' = clearSessionHistory(history)
    /\ UNCHANGED <<adminVars, formData, currentStep, prediction, loading, submitPc,
                   closure, rows, user, now, toasts, edits, calcPc, calcOut,
                   calcPrev, log, tabVars, dbVars>>

NextStore ==
    \/ CallSaveSession
    \/ \E t \in 1..now : CallDeleteSession(SessionId(t))
    \/ CallClearSessionHistory

SpecStore == Init /\ [][NextStore]_vars

-----------------------------------------------------------------------------
(* saveSession in two tabs of one browser.  localStorage is shared; a tab's *)
(* getItem and its setItem are separate accesses, and nothing keeps the     *)
(* other tab from running between them.                                     *)

\* First half of saveSession(session) in a tab: getSessionHistory() and
\* history.unshift(session), the session being made at the next clock value.
TabGetItem(tab) ==
    /\ tabPc[tab] = "idle"
    /\ LET t == now + 1
           result == calculatePrediction(formData, t)
           session == SessionOf(formData, result,
                                TotalScoreOf(formData.responses), t)
       IN  /\ now' = t
           /\ tabLocal' = [tabLocal EXCEPT ![tab] =
                  <<JSONRoundTrip(session)>> \o getSessionHistory(history)]
    /\ tabPc' = [tabPc EXCEPT ![tab] = "read"]
    /\ UNCHANGED <<adminVars, formData, currentStep, prediction, loading, submitPc,
                   closure, history, rows, user, toasts, edits, calcPc,
                   calcOut, calcPrev, log, dbVars>>

\* Second half: history.slice(0, 10) and localStorage.setItem.
TabSetItem(tab) ==
    /\ tabPc[tab] = "read"
    /\ history' = SubSeq(tabLocal[tab], 1,
                         Min(HistoryLimit, Len(tabLocal[tab])))
    /\ tabPc' = [tabPc EXCEPT ![tab] = "done"]
    /\ UNCHANGED <<adminVars, formData, currentStep, prediction, loading, submitPc,
                   closure, rows, user, now, toasts, edits, calcPc, calcOut,
                   calcPrev, log, tabLocal, dbVars>>

\* Saves made before the two tabs save at the same time, then the two tabs.
NextTabs ==
    \/ ((\A tab \in Tabs : tabPc[tab] = "idle") /\ CallSaveSession)
    \/ \E tab \in Tabs : TabGetItem(tab)
    \/ \E tab \in Tabs : TabSetItem(tab)

SpecTabs == Init /\ [][NextTabs]_vars

-----------------------------------------------------------------------------
(* prediction_results and user_roles under row level security: the          *)
(* statements clients send with their own session, and role management      *)

\* Who sends statements: nobody signed in (auth.uid() is NULL), or a user.
DbUsers == {NoUser, "user-1", "user-2", "user-3"}

\* The service role, which row level security does not apply to.
ServiceRole == "service_role"

\* app_role
AppRoles == {"admin", "user"}

\* public.has_role(_user_id, _role): EXISTS in user_roles.
has_role(userId, role) == <<userId, role>> \in userRoles

\* Mutant: every signed-in user may read every row.
SelectAllowed_SignedIn(uid, row) == uid # NoUser

\* "Users can view own predictions": USING (auth.uid() = user_id), or
\* "Admins can view all predictions": USING (has_role(auth.uid(), 'admin')).
SelectAllowed(uid, row) ==
    \/ uid # NoUser /\ uid = row.user_id
    \/ has_role(uid, "admin")

\* "Admins can manage roles": FOR ALL USING (has_role(auth.uid(), 'admin')).
ManageRolesAllowed(uid) == uid = ServiceRole \/ has_role(uid, "admin")

\* INSERT INTO prediction_results (user_id, ...) sent by uid with user_id
\* set to claimed: stored when the WITH CHECK passes, rejected otherwise.
DbInsert(uid, claimed) ==
    /\ Len(rows) < MaxRows
    /\ LET result == calculatePrediction(formData, now)
           row == PredictionRow(formData, claimed, result,
                                TotalScoreOf(formData.responses))
           stored == IF InsertAllowed(uid, row) THEN <<row>> ELSE <<>>
       IN  /\ rows' = rows \o stored
           /\ selected' = Some([by |-> uid, op |-> "insert", rows |-> stored])
    /\ UNCHANGED <<adminVars, formData, currentStep, prediction, loading, submitPc,
                   closure, history, user, now, toasts, edits,
                   calcPc, calcOut, calcPrev, log, tabVars, userRoles>>

\* SELECT * FROM prediction_results sent by uid: the rows a SELECT policy
\* lets through.
DbSelect(uid) ==
    /\ selected' = Some([by |-> uid, op |-> "select",
                         rows |-> SelectSeq(rows,
                                   LAMBDA row : SelectAllowed(uid, row))])
    /\ UNCHANGED <<adminVars, formData, currentStep, prediction, loading, submitPc,
                   closure, history, rows, user, now, toasts, edits,
                   calcPc, calcOut, calcPrev, log, tabVars, userRoles>>

\* INSERT INTO user_roles (user_id, role); UNIQUE (user_id, role).
GrantRole(by, uid, role) ==
    /\ ManageRolesAllowed(by)
    /\ <<uid, role>> \notin userRoles
    /\ userRoles' = userRoles \cup {<<uid, role>>}
    /\ UNCHANGED <<adminVars, formData, currentStep, prediction, loading, submitPc,
                   closure, history, rows, user, now, toasts, edits,
                   calcPc, calcOut, calcPrev, log, tabVars, selected>>

\* DELETE FROM user_roles WHERE user_id = uid AND role = role.
RevokeRole(by, uid, role) ==
    /\ ManageRolesAllowed(by)
    /\ <<uid, role>> \in userRoles
    /\ userRoles' = userRoles \ {<<uid, role>>}
    /\ UNCHANGED <<adminVars, formData, currentStep, prediction, loading, submitPc,
                   closure, history, rows, user, now, toasts, edits,
                   calcPc, calcOut, calcPrev, log, tabVars, selected>>

NextDb ==
    \/ \E uid \in DbUsers, claimed \in DbUsers \ {NoUser} : DbInsert(uid, claimed)
    \/ \E uid \in DbUsers : DbSelect(uid)
    \/ \E by \in DbUsers \cup {ServiceRole}, uid \in DbUsers \ {NoUser},
           role \in AppRoles : GrantRole(by, uid, role)
    \/ \E by \in DbUsers \cup {ServiceRole}, uid \in DbUsers \ {NoUser},
           role \in AppRoles : RevokeRole(by, uid, role)

SpecDb == Init /\ [][NextDb]_vars

-----------------------------------------------------------------------------
(* Submissions, resets and the SessionHistory panel of the results view,    *)
(* with the statements a client can send to prediction_results              *)

\* The SessionHistory component is rendered by the results view only.
HistoryShown == prediction # NULL

\* SessionHistory.handleDelete(id) of a listed session: deleteSession(id),
\* loadSessions(), toast "Session Deleted".
handleDelete(id) ==
    /\ HistoryShown
    /\ \E i \in 1..Len(history) : history[i].id = id
    /\ history' = deleteSession(history, id)
    /\ toasts' = Append(toasts, "Session Deleted")
    /\ UNCHANGED <<adminVars, formData, currentStep, prediction, loading, submitPc,
                   closure, rows, user, now, edits, calcPc, calcOut, calcPrev,
                   log, tabVars, dbVars>>

\* SessionHistory.handleClearAll ("Clear All" is shown with sessions only):
\* clearSessionHistory(), loadSessions(), toast "History Cleared".
handleClearAll ==
    /\ HistoryShown
    /\ Len(history) > 0
    /\ history' = clearSessionHistory(history)
    /\ toasts' = Append(toasts, "History Cleared")
    /\ UNCHANGED <<adminVars, formData, currentStep, prediction, loading, submitPc,
                   closure, rows, user, now, edits, calcPc, calcOut, calcPrev,
                   log, tabVars, dbVars>>

\* Mutant: a policy "users can update own predictions".
UpdateAllowed_Own(uid, row) == uid = row.user_id

\* Row level security is enabled on prediction_results and no policy is
\* defined FOR UPDATE: no row passes.
UpdateAllowed(uid, row) == FALSE

\* No policy is defined FOR DELETE either.
DeleteAllowed(uid, row) == FALSE

RiskLevels == {"Low", "Medium", "High"}

\* UPDATE prediction_results SET risk_level = level, sent by uid: the rows
\* the policies let through are changed, the others are left alone.
DbUpdate(uid, level) ==
    /\ rows' = [i \in DOMAIN rows |->
                    IF UpdateAllowed(uid, rows[i])
                    THEN [rows[i] EXCEPT !.risk_level = level]
                    ELSE rows[i]]
    /\ UNCHANGED <<adminVars, formData, currentStep, prediction, loading, submitPc,
                   closure, history, user, now, toasts, edits,
                   calcPc, calcOut, calcPrev, log, tabVars, dbVars>>

\* DELETE FROM prediction_results, sent by uid.
DbDelete(uid) ==
    /\ rows' = SelectSeq(rows, LAMBDA row : ~DeleteAllowed(uid, row))
    /\ UNCHANGED <<adminVars, formData, currentStep, prediction, loading, submitPc,
                   closure, history, user, now, toasts, edits,
                   calcPc, calcOut, calcPrev, log, tabVars, dbVars>>

NextHistory ==
    \/ ContinueToQuestions
    \/ NextQuestion
    \/ PreviousQuestion
    \/ BackToQuestions
    \/ (now < MaxSessions /\ PressSubmit)
    \/ TimerFires
    \/ \E ok \in BOOLEAN : InsertReturns(ok)
    \/ resetAssessment
    \/ \E i \in 1..Len(history) : handleDelete(history[i].id)
    \/ handleClearAll
    \/ \E uid \in Users, level \in RiskLevels : DbUpdate(uid, level)
    \/ \E uid \in Users : DbDelete(uid)

SpecHistory == Init /\ [][NextHistory]_vars

\* Submissions, resets and the history panel, with calculatePrediction also
\* called on its own at any moment.
NextFrame ==
    \/ ContinueToQuestions
    \/ NextQuestion
    \/ PreviousQuestion
    \/ BackToQuestions
    \/ (now < MaxSubmits /\ PressSubmit)
    \/ TimerFires
    \/ \E ok \in BOOLEAN : InsertReturns(ok)
    \/ resetAssessment
    \/ \E i \in 1..Len(history) : handleDelete(history[i].id)
    \/ handleClearAll
    \/ CallCalc
    \/ CallCalcAgain

SpecFrame == Init /\ [][NextFrame]_vars

\* Navigation, submissions and resets.
NextLive ==
    \/ ContinueToQuestions
    \/ NextQuestion
    \/ PreviousQuestion
    \/ BackToQuestions
    \/ (now < MaxSubmits /\ PressSubmit)
    \/ TimerFires
    \/ \E ok \in BOOLEAN : InsertReturns(ok)
    \/ resetAssessment

\* These steps where the browser and the network do their part: a started
\* timer fires and a sent insert returns, with or without an error.
SpecLive ==
    /\ Init
    /\ [][NextLive]_vars
    /\ WF_vars(TimerFires)
    /\ WF_vars(\E ok \in BOOLEAN : InsertReturns(ok))


-----------------------------------------------------------------------------
(* ProtectedRoute: what it renders and where its effect navigates, from     *)
(* its requireAdmin prop and the values useAuth() returns                   *)

\* Everything of the application outside the routes and the admin panel.
appVars == <<formData, currentStep, prediction, loading, submitPc, closure,
             history, rows, user, now, toasts, edits, calcPc, calcOut,
             calcPrev, log, tabVars, dbVars>>

\* What useAuth() can return: isLoading, user, isApproved, isAdmin.
AuthValues ==
    [isLoading : BOOLEAN, user : Users, isApproved : BOOLEAN, isAdmin : BOOLEAN]

\* Mutant: the approval check of the effect comes before the admin check.
RedirectOf_ApprovalFirst(r) ==
    IF r.isLoading THEN "none"
    ELSE IF r.user = NoUser THEN "/auth"
    ELSE IF ~r.isApproved THEN "/auth"
    ELSE IF r.requireAdmin /\ ~r.isAdmin THEN "/"
    ELSE "none"

\* The body of the useEffect: the path it passes to navigate(), "none"
\* where it does not navigate.
RedirectOf(r) ==
    IF r.isLoading THEN "none"
    ELSE IF r.user = NoUser THEN "/auth"
    ELSE IF r.requireAdmin /\ ~r.isAdmin THEN "/"
    ELSE IF ~r.isApproved THEN "/auth"
    ELSE "none"

\* What the component returns: the spinner, null, or its children.
RenderOf(r) ==
    IF r.isLoading THEN "spinner"
    ELSE IF r.user = NoUser \/ ~r.isApproved \/ (r.requireAdmin /\ ~r.isAdmin)
         THEN "null"
    ELSE "children"

\* The route is mounted with its requireAdmin prop; nothing is rendered yet
\* and no effect has run.
MountRoute(requireAdmin) ==
    /\ route.pc = "idle"
    /\ route' = [route EXCEPT !.requireAdmin = requireAdmin,
                              !.rendered = "none", !.navigated = "none",
                              !.pc = "render"]
    /\ UNCHANGED <<appVars, profiles, sent, panel>>

\* The auth context changes one of the values and the component is
\* scheduled to render again.
AuthChanges(auth) ==
    /\ route.pc = "idle"
    /\ auth # [isLoading |-> route.isLoading, user |-> route.user,
               isApproved |-> route.isApproved, isAdmin |-> route.isAdmin]
    /\ route' = [route EXCEPT !.isLoading = auth.isLoading, !.user = auth.user,
                              !.isApproved = auth.isApproved,
                              !.isAdmin = auth.isAdmin, !.pc = "render"]
    /\ UNCHANGED <<appVars, profiles, sent, panel>>

\* The component function runs with the current values.
ProtectedRouteRender ==
    /\ route.pc = "render"
    /\ route' = [route EXCEPT !.rendered = RenderOf(route), !.pc = "effect"]
    /\ UNCHANGED <<appVars, profiles, sent, panel>>

\* After the commit the effect runs: a dependency has changed, or it is
\* the first render.
ProtectedRouteEffect ==
    /\ route.pc = "effect"
    /\ route' = [route EXCEPT !.navigated = RedirectOf(route), !.pc = "idle"]
    /\ UNCHANGED <<appVars, profiles, sent, panel>>

NextRoute ==
    \/ \E requireAdmin \in BOOLEAN : MountRoute(requireAdmin)
    \/ \E auth \in AuthValues : AuthChanges(auth)
    \/ ProtectedRouteRender
    \/ ProtectedRouteEffect

SpecRoute == Init /\ [][NextRoute]_vars


-----------------------------------------------------------------------------
(* public.profiles and public.user_roles under row level security: the      *)
(* statements clients send with their own session                           *)

\* The ids of auth.users that profiles are kept for.
ProfileIds == {"user-1", "user-2"}

\* CHECK (approval_status IN ('pending', 'approved', 'rejected'))
StatusValues == {"pending", "approved", "rejected"}

\* Mutant: users may update their own profile.
ProfileUpdateAllowed_Own(by, id) ==
    by = ServiceRole \/ by = id \/ has_role(by, "admin")

\* "Admins can update profiles": FOR UPDATE USING (has_role(auth.uid(),
\* 'admin')); no other UPDATE policy exists.
ProfileUpdateAllowed(by, id) == by = ServiceRole \/ has_role(by, "admin")

\* "Users can view own profile": USING (auth.uid() = id), or "Admins can
\* view all profiles": USING (has_role(auth.uid(), 'admin')).
ProfileSelectAllowed(by, id) ==
    by = ServiceRole \/ (by # NoUser /\ by = id) \/ has_role(by, "admin")

\* A statement as `sent` records it: its sender, table, operation and row,
\* and the parity of the number of statements sent so far.
Statement(by, table, op, row) ==
    Some([by |-> by, table |-> table, op |-> op, row |-> row,
          parity |-> IF sent = NULL THEN 1 ELSE 1 - Value(sent).parity])

\* UPDATE profiles SET approval_status = status WHERE id = id, sent by
\* `by`: the table afterwards.  A row the policy hides is not updated.
UpdatedProfiles(by, id, status) ==
    IF profiles[id] # "none" /\ ProfileUpdateAllowed(by, id)
    THEN [profiles EXCEPT ![id] = status]
    ELSE profiles

\* SELECT * FROM profiles sent by `by`: the rows a SELECT policy lets
\* through.
SelectedProfiles(by) ==
    [id \in ProfileIds |->
        IF ProfileSelectAllowed(by, id) THEN profiles[id] ELSE "none"]

\* on_auth_user_created: handle_new_user() inserts the profile of a new
\* user, as SECURITY DEFINER.  The function is defined twice: it stores
\* the column default 'pending', or 'approved'.
SignUp(id, status) ==
    /\ profiles[id] = "none"
    /\ status \in {"pending", "approved"}
    /\ profiles' = [profiles EXCEPT ![id] = status]
    /\ panel' = [s \in DOMAIN panel |->
                   IF panel[s].mounted
                   THEN [panel[s] EXCEPT !.events = @ + 1]
                   ELSE panel[s]]
    /\ UNCHANGED <<appVars, route, sent>>

\* A client sends UPDATE profiles SET approval_status = status WHERE id = id.
UpdateProfile(by, id, status) ==
    /\ profiles' = UpdatedProfiles(by, id, status)
    /\ sent' = Statement(by, "profiles", "update", <<id, status>>)
    /\ panel' = [s \in DOMAIN panel |->
                   IF panel[s].mounted /\ profiles[id] # "none"
                                       /\ ProfileUpdateAllowed(by, id)
                   THEN [panel[s] EXCEPT !.events = @ + 1]
                   ELSE panel[s]]
    /\ UNCHANGED <<appVars, route>>

\* A client sends INSERT INTO profiles or DELETE FROM profiles: no policy
\* allows either, so the table stays as it is for everyone but the service
\* role.
InsertProfile(by, id, status) ==
    /\ profiles' = IF by = ServiceRole /\ profiles[id] = "none"
                   THEN [profiles EXCEPT ![id] = status] ELSE profiles
    /\ sent' = Statement(by, "profiles", "insert", <<id, status>>)
    /\ UNCHANGED <<appVars, route, panel>>

DeleteProfile(by, id) ==
    /\ profiles' = IF by = ServiceRole THEN [profiles EXCEPT ![id] = "none"]
                   ELSE profiles
    /\ sent' = Statement(by, "profiles", "delete", <<id, "none">>)
    /\ UNCHANGED <<appVars, route, panel>>

\* The frame of a statement on user_roles.
RoleStatement(by, op, uid, role, after) ==
    /\ userRoles' = IF ManageRolesAllowed(by) THEN after ELSE userRoles
    /\ sent' = Statement(by, "user_roles", op, <<uid, role>>)
    /\ UNCHANGED <<formData, currentStep, prediction, loading, submitPc,
                   closure, history, rows, user, now, toasts, edits, calcPc,
                   calcOut, calcPrev, log, tabVars, selected, route, profiles,
                   panel>>

\* A client sends INSERT INTO user_roles (user_id, role); UNIQUE (user_id,
\* role).
InsertRole(by, uid, role) ==
    RoleStatement(by, "insert", uid, role, userRoles \cup {<<uid, role>>})

\* A client sends DELETE FROM user_roles WHERE user_id = uid AND role = role.
DeleteRole(by, uid, role) ==
    RoleStatement(by, "delete", uid, role, userRoles \ {<<uid, role>>})

\* A client sends UPDATE user_roles SET role = role WHERE user_id = uid.
UpdateRole(by, uid, role) ==
    RoleStatement(by, "update", uid, role,
                  {r \in userRoles : r[1] # uid}
                      \cup {<<r[1], role>> : r \in {q \in userRoles : q[1] = uid}})

\* Who sends statements on profiles and user_roles.
Senders == {NoUser, "user-1", "user-2", ServiceRole}

NextProfiles ==
    \/ \E id \in ProfileIds, status \in {"pending", "approved"} : SignUp(id, status)
    \/ \E by \in Senders, id \in ProfileIds, status \in StatusValues :
           UpdateProfile(by, id, status)
    \/ \E by \in Senders, id \in ProfileIds, status \in StatusValues :
           InsertProfile(by, id, status)
    \/ \E by \in Senders, id \in ProfileIds : DeleteProfile(by, id)
    \/ \E by \in Senders, uid \in ProfileIds, role \in AppRoles :
           InsertRole(by, uid, role)
    \/ \E by \in Senders, uid \in ProfileIds, role \in AppRoles :
           DeleteRole(by, uid, role)
    \/ \E by \in Senders, uid \in ProfileIds, role \in AppRoles :
           UpdateRole(by, uid, role)

SpecProfiles == Init /\ [][NextProfiles]_vars


-----------------------------------------------------------------------------
(* AdminPanel: the profile list of each admin session, its fetchProfiles    *)
(* calls and updates in flight, and the realtime events on profiles.  The   *)
(* prediction list of the panel and its toasts are left out; a session      *)
(* records in `failed` that one of its fetchProfiles calls got an error.    *)

\* Two browser sessions have the panel open, both signed in as user-3.
Sessions == {"admin-1", "admin-2"}
PanelUser(s) == "user-3"

\* The profile the sessions act on.
PanelProfiles == {"user-1"}

\* Row actions: Approve and Reject on a row displayed as pending, Approve
\* on a row displayed as rejected.
ApproveShown(s, id) ==
    panel[s].mounted /\ panel[s].profiles[id] \in {"pending", "rejected"}
RejectShown(s, id) == panel[s].mounted /\ panel[s].profiles[id] = "pending"

\* Sequence q without its i-th element.
WithoutIndex(q, i) == SubSeq(q, 1, i - 1) \o SubSeq(q, i + 1, Len(q))

\* A change of a profiles row is published to the profiles_changes channel
\* of every session that has subscribed.
Published(p, changed) ==
    [s \in Sessions |->
        IF changed /\ p[s].mounted THEN [p[s] EXCEPT !.events = @ + 1] ELSE p[s]]

\* The mount effect: fetchProfiles() is called and the channel subscribed.
\* The sessions are admin sessions: who opens the panel holds the admin
\* role.
PanelMount(s) ==
    /\ ~panel[s].mounted
    /\ has_role(PanelUser(s), "admin")
    /\ panel' = [panel EXCEPT ![s].mounted = TRUE, ![s].fetches = <<NULL>>]
    /\ UNCHANGED <<appVars, route, profiles, sent>>

\* The database answers the select of a fetchProfiles call with the rows
\* the session's user may see.
ServeFetch(s, i) ==
    /\ i \in DOMAIN panel[s].fetches
    /\ panel[s].fetches[i] = NULL
    /\ panel' = [panel EXCEPT ![s].fetches[i] = Some(SelectedProfiles(PanelUser(s)))]
    /\ UNCHANGED <<appVars, route, profiles, sent>>

\* fetchProfiles resumes after its await: setProfiles(data), or nothing but
\* a toast where the select returned an error.
FetchReturns(s, i, ok) ==
    /\ i \in DOMAIN panel[s].fetches
    /\ ok => panel[s].fetches[i] # NULL
    /\ panel' = [panel EXCEPT
                   ![s].fetches = WithoutIndex(@, i),
                   ![s].profiles = IF ok THEN Value(panel[s].fetches[i]) ELSE @,
                   ![s].failed = @ \/ ~ok]
    /\ UNCHANGED <<appVars, route, profiles, sent>>

\* The first half of handleApprove and handleReject: the update is sent.
SendWrite(s, id, status) ==
    /\ panel[s].presses < MaxPresses
    /\ panel' = [panel EXCEPT
                   ![s].presses = @ + 1,
                   ![s].writes = Append(@, [id |-> id, status |-> status,
                                            applied |-> FALSE])]
    /\ UNCHANGED <<appVars, route, profiles, sent>>

\* onClick={() => handleApprove(profile.id)}
handleApprove(s, id) == ApproveShown(s, id) /\ SendWrite(s, id, "approved")

\* onClick={() => handleReject(profile.id)}
handleReject(s, id) == RejectShown(s, id) /\ SendWrite(s, id, "rejected")

\* The database runs the update of a session: .update({approval_status})
\* .eq('id', userId), under the UPDATE policy.
ApplyWrite(s, i) ==
    /\ i \in DOMAIN panel[s].writes
    /\ ~panel[s].writes[i].applied
    /\ LET w == panel[s].writes[i]
           changed == profiles[w.id] # "none"
                        /\ ProfileUpdateAllowed(PanelUser(s), w.id)
       IN  /\ profiles' = UpdatedProfiles(PanelUser(s), w.id, w.status)
           /\ panel' = [Published(panel, changed) EXCEPT ![s].writes[i].applied = TRUE]
    /\ UNCHANGED <<appVars, route, sent>>

\* handleApprove and handleReject resume after their await: fetchProfiles()
\* where the update returned no error, nothing but a toast otherwise.
WriteReturns(s, i, ok) ==
    /\ i \in DOMAIN panel[s].writes
    /\ ok => /\ panel[s].writes[i].applied
             /\ Len(panel[s].fetches) < MaxInFlight
    /\ panel' = [panel EXCEPT
                   ![s].writes = WithoutIndex(@, i),
                   ![s].fetches = IF ok THEN Append(@, NULL) ELSE @]
    /\ UNCHANGED <<appVars, route, profiles, sent>>

\* The postgres_changes callback of the profiles channel: fetchProfiles().
EventArrives(s) ==
    /\ panel[s].events > 0
    /\ Len(panel[s].fetches) < MaxInFlight
    /\ panel' = [panel EXCEPT ![s].events = @ - 1,
                              ![s].fetches = Append(@, NULL)]
    /\ UNCHANGED <<appVars, route, profiles, sent>>

NextPanel ==
    \/ GrantRole(ServiceRole, "user-3", "admin")
    \/ \E id \in PanelProfiles, status \in {"pending", "approved"} : SignUp(id, status)
    \/ \E s \in Sessions : PanelMount(s)
    \/ \E s \in Sessions, i \in 1..MaxInFlight : ServeFetch(s, i)
    \/ \E s \in Sessions, i \in 1..MaxInFlight, ok \in BOOLEAN : FetchReturns(s, i, ok)
    \/ \E s \in Sessions, id \in PanelProfiles : handleApprove(s, id)
    \/ \E s \in Sessions, id \in PanelProfiles : handleReject(s, id)
    \/ \E s \in Sessions, i \in 1..MaxPresses : ApplyWrite(s, i)
    \/ \E s \in Sessions, i \in 1..MaxPresses, ok \in BOOLEAN : WriteReturns(s, i, ok)
    \/ \E s \in Sessions : EventArrives(s)

SpecPanel == Init /\ [][NextPanel]_vars

-----------------------------------------------------------------------------
(* Properties.  The mapping, sums and counts of the specification are       *)
(* restated here, independently of the definitions above.                   *)

\* never=0, rarely=1, sometimes=2, often=3, always=4 (specification, section 3).
MappedInteger(response) ==
    CASE response = "never" -> 0
      [] response = "rarely" -> 1
      [] response = "sometimes" -> 2
      [] response = "often" -> 3
      [] response = "always" -> 4

RECURSIVE MappedSum(_)
MappedSum(responses) ==
    IF responses = <<>> THEN 0
    ELSE MappedInteger(Head(responses)) + MappedSum(Tail(responses))

RECURSIVE BreakdownSum(_)
BreakdownSum(breakdown) ==
    IF breakdown = <<>> THEN 0
    ELSE Head(breakdown).score + BreakdownSum(Tail(breakdown))

\* A direct call has returned for a valid input; its result.
CalledOnValid == calcPc # "ready" /\ IsValidInput(formData)
CalcResult == Value(calcOut).result

AllAnswers(response) == Uniform(NumQuestions, response)

\* C1: for every valid input, the totalScore handleSubmit stores (in the local
\* history entry and in the total_score column) is the sum of the ten
\* responses under never=0 .. always=4, is the sum of the scores of the
\* stored result's scoreBreakdown, and lies in [0,40].
C1_StoredTotalScore ==
    /\ \A k \in DOMAIN history :
          /\ history[k].totalScore = MappedSum(formData.responses)
          /\ history[k].totalScore = BreakdownSum(history[k].result.scoreBreakdown)
          /\ history[k].totalScore \in 0..40
    /\ \A k \in DOMAIN rows :
          /\ rows[k].total_score = MappedSum(formData.responses)
          /\ rows[k].total_score =
                BreakdownSum(rows[k].prediction_result.scoreBreakdown)
          /\ rows[k].total_score \in 0..40

\* A submission of a mixed input has been stored locally and remotely.
C1_Witness ==
    /\ Len(history) = 1 /\ Len(rows) = 1
    /\ history[1].totalScore = 23
    /\ rows[1].total_score = 23
    /\ formData.responses[1] # formData.responses[NumQuestions]

\* C2: for every valid input riskPercentage is in [0,100], and riskLevel is
\* Low exactly when riskPercentage < 35, Medium exactly when it is in
\* [35,65), High exactly when it is >= 65.
C2_RiskLevelSteps ==
    CalledOnValid =>
        LET r == CalcResult IN
        /\ r.riskPercentage >= 0 /\ r.riskPercentage <= 100 * 200
        /\ r.riskLevel \in {"Low", "Medium", "High"}
        /\ r.riskLevel = "Low" <=> r.riskPercentage < 35 * 200
        /\ r.riskLevel = "Medium" <=>
              (r.riskPercentage >= 35 * 200 /\ r.riskPercentage < 65 * 200)
        /\ r.riskLevel = "High" <=> r.riskPercentage >= 65 * 200

\* A valid input whose result is High and below 70 percent.
C2_Witness ==
    /\ CalledOnValid
    /\ CalcResult.riskLevel = "High"
    /\ CalcResult.riskPercentage < 70 * 200

\* C3: for every valid input and every riskLevel, confidence is in
\* [0.6, 0.95] (in ConfUnits: [4200, 6650]).
C3_ConfidenceRange ==
    CalledOnValid =>
        /\ 10 * CalcResult.confidence >= 6 * 7000
        /\ 100 * CalcResult.confidence <= 95 * 7000

\* A High result so close to 65 that (p - 65) / 35 is below 0.6: the lower
\* clamp decides the confidence.
C3_Witness ==
    /\ CalledOnValid
    /\ CalcResult.riskLevel = "High"
    /\ 10 * (CalcResult.riskPercentage - 65 * 200) < 6 * 7000
    /\ 10 * CalcResult.confidence = 6 * 7000

\* C4: two calls of calculatePrediction with identical age, gender and
\* responses return results identical in every field, timestamp included.
C4_Deterministic ==
    calcPc = "twice" => Value(calcOut).result = Value(calcPrev).result

\* C5: calculatePrediction fails with InvalidInput and produces no result
\* when responses are not exactly 10 recognized values or age is outside
\* [2,14].
C5_InvalidInputRejected ==
    (calcPc # "ready" /\ ~IsValidInput(formData)) =>
        Value(calcOut).outcome = "InvalidInput"

\* C6 as stated: all ten responses 'always', age 5, M give totalScore 40,
\* normalizedScore 1.0, highRiskResponses 10 with the bonus, an unclamped
\* riskScore that reaches the upper clamp, riskPercentage 100 and High.
C6_AllAlwaysClamped ==
    (calcPc # "ready" /\ formData.age = 5 /\ formData.gender = "M"
        /\ formData.responses = AllAnswers("always")) =>
        /\ BreakdownSum(CalcResult.scoreBreakdown) = 40
        /\ highRiskResponses(formData.responses) = 10
        /\ HighRiskBonus(formData.responses) > 0
        /\ UnclampedRiskScore(formData) >= ScoreUnit
        /\ CalcResult.riskPercentage = 100 * 200
        /\ CalcResult.riskLevel = "High"

\* C6 as amended: all ten responses 'always', age 5, M give totalScore 40
\* (normalizedScore 40/40), highRiskResponses 10 with the bonus of 0.1 and
\* no low-engagement bonus; the unclamped riskScore is 0.85 + 0.15 * 0.05 +
\* 0.1 = 0.9575, below the upper clamp, so riskPercentage is 95.75
\* unclamped, and riskLevel is High.
C6_AllAlways ==
    (calcPc # "ready" /\ formData.age = 5 /\ formData.gender = "M"
        /\ formData.responses = AllAnswers("always")) =>
        /\ BreakdownSum(CalcResult.scoreBreakdown) = 40
        /\ highRiskResponses(formData.responses) = 10
        /\ HighRiskBonus(formData.responses) = 2000
        /\ 10000 * UnclampedRiskScore(formData) = 9575 * ScoreUnit
        /\ UnclampedRiskScore(formData) < ScoreUnit
        /\ 100 * CalcResult.riskPercentage = 9575 * 200
        /\ CalcResult.riskLevel = "High"

C6_Witness ==
    /\ calcPc = "once" /\ formData.age = 5 /\ formData.gender = "M"
    /\ formData.responses = AllAnswers("always")
    /\ CalcResult.riskLevel = "High"

\* C7 as stated: all ten responses 'never', age 5, F give totalScore 0, Low,
\* and a riskPercentage that is the demographic adjustment alone (no other
\* term contributes), in the low single digits.
C7_AllNeverDemographicOnly ==
    (calcPc # "ready" /\ formData.age = 5 /\ formData.gender = "F"
        /\ formData.responses = AllAnswers("never")) =>
        /\ BreakdownSum(CalcResult.scoreBreakdown) = 0
        /\ CalcResult.riskLevel = "Low"
        /\ CalcResult.riskPercentage =
              WeightedScore(0, DemographicAdjustment(formData))
        /\ CalcResult.riskPercentage < 10 * 200

\* C7 as amended: all ten responses 'never', age 5, F give totalScore 0 and
\* Low; the demographic adjustment is 0 (no age band, not male) and
\* riskPercentage is 5, all of it the low-engagement bonus of 0.05.
C7_AllNever ==
    (calcPc # "ready" /\ formData.age = 5 /\ formData.gender = "F"
        /\ formData.responses = AllAnswers("never")) =>
        /\ BreakdownSum(CalcResult.scoreBreakdown) = 0
        /\ CalcResult.riskLevel = "Low"
        /\ DemographicAdjustment(formData) = 0
        /\ CalcResult.riskPercentage = 5 * 200
        /\ CalcResult.riskPercentage = LowEngagementBonus(formData.responses)

C7_Witness ==
    /\ calcPc = "once" /\ formData.age = 5 /\ formData.gender = "F"
    /\ formData.responses = AllAnswers("never")
    /\ CalcResult.riskLevel = "Low"

\* Number of responses in {often, always}, counted on the input.
HighAnswers(responses) ==
    Cardinality({i \in 1..Len(responses) :
                    responses[i] = "often" \/ responses[i] = "always"})

\* 0.85 * (totalScore / 40) + 0.15 * (age adjustment + gender adjustment),
\* in ScoreUnits (1/20000).
C8_Base(fd) ==
    (85 * ScoreUnit * MappedSum(fd.responses)) \div (100 * 40)
    + (15 * ScoreUnit * (AgeAdjustment(fd.age) + GenderAdjustment(fd.gender)))
        \div (100 * 100)

\* C8: the high-risk bonus is applied exactly once and only from the
\* threshold: with at least 6 responses in {often, always} the riskScore
\* before clamping is 0.85 * (totalScore / 40) + 0.15 * (age adjustment +
\* gender adjustment) + 0.1, and with 5 or fewer no 0.1 term is added (what
\* is added is nothing or the 0.05 low-engagement bonus).
C8_HighRiskBonusOnce ==
    CalledOnValid =>
        /\ HighAnswers(formData.responses) >= 6 =>
              /\ 10 * (UnclampedRiskScore(formData) - C8_Base(formData))
                    = ScoreUnit
              /\ CalcResult.riskPercentage
                    = Min(ScoreUnit, C8_Base(formData) + ScoreUnit \div 10)
        /\ HighAnswers(formData.responses) <= 5 =>
              /\ 20 * (UnclampedRiskScore(formData) - C8_Base(formData))
                    \in {0, ScoreUnit}
              /\ CalcResult.riskPercentage - C8_Base(formData)
                    \in {0, ScoreUnit \div 20}

\* The reference case: 4 'never' and 6 'often', age 8.
C8_Witness ==
    /\ calcPc = "once" /\ formData.age = 8
    /\ formData.responses = Layout(<<4, 0, 0, 6, 0>>)
    /\ HighAnswers(formData.responses) = 6
    /\ CalcResult.riskPercentage = C8_Base(formData) + 2000

\* C9: for every valid input scoreBreakdown has exactly 10 entries; entry i
\* carries the i-th question text, the i-th response unchanged and that
\* response's mapped integer, in input order.
C9_ScoreBreakdown ==
    CalledOnValid =>
        /\ Len(CalcResult.scoreBreakdown) = 10
        /\ \A i \in 1..10 :
              /\ CalcResult.scoreBreakdown[i].question = QUESTIONNAIRE_ITEMS[i]
              /\ CalcResult.scoreBreakdown[i].response = formData.responses[i]
              /\ CalcResult.scoreBreakdown[i].score
                    = MappedInteger(formData.responses[i])

\* A call on an input whose first and last responses differ.
C9_Witness ==
    /\ CalledOnValid
    /\ formData.responses[1] = "rarely"
    /\ formData.responses[NumQuestions] = "never"
    /\ CalcResult.scoreBreakdown[1].score = 1
    /\ CalcResult.scoreBreakdown[NumQuestions].score = 0

\* C10: whatever the user does during the 1.5 s analysis delay, the age,
\* gender and total score displayed next to a result are those the result
\* was computed from: the displayed total score is the sum of the scores of
\* the displayed result's scoreBreakdown, and the displayed age and gender
\* are those saved with that result.
C10_DisplayedInputIsResultInput ==
    prediction # NULL =>
        /\ MappedSum(formData.responses)
              = BreakdownSum(Value(prediction).scoreBreakdown)
        /\ \A k \in DOMAIN history :
              history[k].result = Value(prediction) =>
                  /\ history[k].age = formData.age
                  /\ history[k].gender = formData.gender

-----------------------------------------------------------------------------
(* Submission protocol and stored results *)

\* The result of the calculatePrediction call of a log entry.
ResultOf(made) == calculatePrediction(made.formData, made.at)

\* The session of the saveSession call of a log entry, as it is stored.
SavedBy(made) ==
    JSONRoundTrip([id         |-> <<"session_", made.at>>,
                   timestamp  |-> ISOString(made.at),
                   age        |-> made.formData.age,
                   gender     |-> made.formData.gender,
                   result     |-> ResultOf(made),
                   totalScore |-> MappedSum(made.formData.responses)])

\* The positions of the log at which handleSubmit made a call of one kind.
Calls(kind) == {i \in DOMAIN log : log[i].op = kind}

\* The "Assessment Complete" toasts raised so far: one per finished handleSubmit.
Completed == Cardinality({i \in DOMAIN toasts : toasts[i] = "Assessment Complete"})

\* C11: each press of submit is followed by exactly one calculatePrediction,
\* then exactly one saveSession (of that result), then one insert exactly
\* when the pressing render had a signed-in user and none otherwise; nothing
\* is in the local history or in prediction_results that was not computed
\* first; and a press happens only while no submission is in progress, so
\* the presses are the finished submissions plus the one loading stands for.
C11_OneOfEachPerSubmit ==
    /\ \A i \in DOMAIN log :
         LET op == log[i].op
         IN  /\ op \in {"submit", "calculatePrediction", "saveSession", "insert"}
             /\ (i = 1) => (op = "submit")
             /\ (op = "submit" /\ i > 1) =>
                    log[i - 1].op \in {"saveSession", "insert"}
             /\ (op = "submit" /\ i < Len(log)) =>
                    log[i + 1].op = "calculatePrediction"
             /\ (op = "calculatePrediction") =>
                    /\ i > 1 /\ log[i - 1].op = "submit"
                    /\ i < Len(log) /\ log[i + 1].op = "saveSession"
             /\ (op = "saveSession") =>
                    /\ i > 2 /\ log[i - 1].op = "calculatePrediction"
                    /\ log[i].arg = log[i - 1].arg
                    /\ log[i].arg.formData = log[i - 2].arg.formData
                    /\ (log[i - 2].arg.user # NoUser)
                         <=> (i < Len(log) /\ log[i + 1].op = "insert")
             /\ (op = "insert") =>
                    /\ i > 2 /\ log[i - 1].op = "saveSession"
                    /\ log[i].arg = log[i - 2].arg
                    /\ log[i].arg.user # NoUser
    /\ Len(history) <= Cardinality(Calls("calculatePrediction"))
    /\ Len(rows) <= Cardinality(Calls("insert"))
    /\ Cardinality(Calls("submit")) = Completed + (IF loading THEN 1 ELSE 0)

\* Two submissions of a signed-in user have run to their end.
C11_Witness ==
    /\ Len(log) = 8
    /\ user # NoUser
    /\ Len(rows) = 2
    /\ Len(history) = 2
    /\ ~loading

\* Every entry of the local history is, as JSON, the session one saveSession
\* call was given, and that call is identified by the entry's id.
C12_Content ==
    /\ \A i \in DOMAIN history :
         \E j \in Calls("saveSession") :
            /\ SavedBy(log[j].arg).id = history[i].id
            /\ SavedBy(log[j].arg) = history[i]
    /\ \A j, k \in Calls("saveSession") :
         (log[j].arg.at = log[k].arg.at) => (j = k)

\* One step: the rows of prediction_results stay as they are (rows are only
\* added); an entry of the history after the step is an entry of before or
\* the session saved in this step; a submission puts its session in front of
\* the entries of before, which keep their content and order.
C12_Step ==
    /\ \A i \in DOMAIN rows : i \in DOMAIN rows' /\ rows'[i] = rows[i]
    /\ \A i \in DOMAIN history' :
         \/ \E k \in DOMAIN history : history[k] = history'[i]
         \/ /\ Len(log') > Len(log)
            /\ \E j \in Calls("saveSession")' :
                  j > Len(log) /\ history'[i] = SavedBy(log'[j].arg)
    /\ (now' # now) =>
         /\ Len(history') = Min(HistoryLimit, Len(history) + 1)
         /\ history'[1].id = SessionId(now')
         /\ \A k \in DOMAIN history :
              (k < HistoryLimit) => (history'[k + 1] = history[k])

\* C12: a stored result is never edited.  Through submissions, resets,
\* deleteSession and clearSessionHistory every entry of the local history has
\* the content it was saved with, a submission adds an entry and changes
\* none, and no UPDATE or DELETE the policies let through changes a row of
\* prediction_results.
C12_NeverEdited == []C12_Content /\ [][C12_Step]_vars

\* After two stored submissions, the deletion of the later session and a
\* reset, the first session is still in the history.
C12_Witness ==
    /\ now = 2
    /\ Len(rows) = 2
    /\ Len(history) = 1
    /\ history[1].id = SessionId(1)
    /\ prediction = NULL
    /\ currentStep = 0

\* The clock value a stored session was made at.
SavedAt(session) == session.id[2]

\* At most 10 sessions, the later saved before the earlier saved.
C13_CappedNewestFirst ==
    /\ Len(history) <= 10
    /\ \A i, j \in DOMAIN history :
         (i < j) => (SavedAt(history[i]) > SavedAt(history[j]))

\* A save puts the new session first and keeps the sessions before it in
\* their order; on a full history exactly the last (oldest) one goes.
C13_SaveStep ==
    (now' # now) =>
        /\ history'[1].id = SessionId(now')
        /\ IF Len(history) < 10
           THEN Tail(history') = history
           ELSE Tail(history') = SubSeq(history, 1, 9)

\* C13: from an empty store, after any sequence of saveSession,
\* deleteSession and clearSessionHistory calls the local history holds at
\* most 10 sessions, most recent first; saving an 11th session puts it first
\* and evicts exactly the oldest one.
C13_HistoryCap == []C13_CappedNewestFirst /\ [][C13_SaveStep]_vars

\* Eleven sessions were saved: the eleventh is first, the first one is gone.
C13_Witness ==
    /\ now = 11
    /\ Len(history) = 10
    /\ history[1].id = SessionId(11)
    /\ history[10].id = SessionId(2)

\* age an integer in [2,14], gender M or F, exactly 10 responses of the five.
C14_Valid(fd) ==
    /\ fd.age \in 2..14
    /\ fd.gender \in {"M", "F"}
    /\ DOMAIN fd.responses = 1..10
    /\ \A i \in 1..10 :
         fd.responses[i] \in {"never", "rarely", "sometimes", "often", "always"}

\* C14: in every reachable state of the wizard formData is a valid
\* AssessmentInput, and so is the formData of every render submit was
\* pressed in, which is what calculatePrediction is called on.
C14_FormDataValid ==
    /\ C14_Valid(formData)
    /\ (closure # NULL) => C14_Valid(Value(closure).formData)
    /\ \A i \in Calls("submit") : C14_Valid(log[i].arg.formData)

\* An answer was changed, and the changed form was submitted and computed.
C14_Witness ==
    /\ formData.responses[10] = "always"
    /\ Calls("calculatePrediction") # {}
    /\ prediction # NULL

\* A call of calculatePrediction on its own changes nothing of the
\* component, of the local history or of prediction_results.
C15_CallFrame ==
    (calcPc' # calcPc) =>
        UNCHANGED <<formData, currentStep, loading, prediction, history, rows>>

\* Where a session enters the local history or a row enters
\* prediction_results, handleSubmit is running and what is stored holds the
\* result calculatePrediction returned to it before.
C15_PersistedBySubmit ==
    /\ (\E i \in DOMAIN history' : \A k \in DOMAIN history : history[k] # history'[i])
         => /\ submitPc = "delay"
            /\ calcPc' = calcPc
            /\ \E j \in Calls("calculatePrediction")' :
                 /\ j > Len(log)
                 /\ log'[j + 1].op = "saveSession"
                 /\ history'[1].result = ResultOf(log'[j].arg)
    /\ (Len(rows') > Len(rows))
         => /\ submitPc = "insert"
            /\ calcPc' = calcPc
            /\ \E j \in Calls("calculatePrediction") :
                 /\ \A k \in Calls("calculatePrediction") : k <= j
                 /\ rows'[Len(rows')].prediction_result = ResultOf(log[j].arg)

\* C15: calculatePrediction has no side effects: a call changes neither
\* formData, currentStep, loading, the displayed prediction, the local
\* session history nor any remote row; persistence is performed only by
\* handleSubmit after the result is returned.
C15_NoSideEffects == [][C15_CallFrame /\ C15_PersistedBySubmit]_vars

\* calculatePrediction was called on its own while a result of an earlier
\* submission is displayed and stored.
C15_Witness ==
    /\ calcPc = "twice"
    /\ prediction # NULL
    /\ Len(history) = 1
    /\ Len(rows) = 1
    /\ Value(calcOut).result.timestamp # Value(prediction).timestamp

\* The text that goes with each risk level.
C16_TextOf ==
    [level \in {"Low", "Medium", "High"} |->
        CASE level = "High" -> RecommendationHigh
          [] level = "Medium" -> RecommendationMedium
          [] level = "Low" -> RecommendationLow]

\* C16: for every valid input riskLevel is Low, Medium or High and the
\* recommendation is the text of that level, where the three levels have
\* three different texts: the recommendation is determined by riskLevel
\* alone, and neither of the two is undefined.
C16_RecommendationByLevel ==
    /\ \A l1, l2 \in DOMAIN C16_TextOf :
         (C16_TextOf[l1] = C16_TextOf[l2]) => (l1 = l2)
    /\ CalledOnValid =>
         /\ CalcResult.riskLevel \in DOMAIN C16_TextOf
         /\ CalcResult.recommendation = C16_TextOf[CalcResult.riskLevel]
         /\ CalcResult.recommendation # Undefined

\* A valid input of risk level Medium got the text of Medium.
C16_Witness ==
    /\ CalledOnValid
    /\ CalcResult.riskLevel = "Medium"
    /\ CalcResult.recommendation = RecommendationMedium

\* The step in which the insert returns an error: handleSubmit was waiting
\* for the insert, ends, and no row was added.
C17_InsertFailed ==
    /\ submitPc = "insert"
    /\ submitPc' = "idle"
    /\ Len(rows') = Len(rows)

\* C17: if the insert into prediction_results returns an error, the
\* submission still completes: the displayed result and the local history
\* stay as they are, "Warning" and then "Assessment Complete" are raised,
\* loading goes back to false, and no further call (no second insert) is
\* made; afterwards handleSubmit is over.
C17_InsertErrorTolerated ==
    [][C17_InsertFailed =>
          /\ prediction' = prediction
          /\ history' = history
          /\ rows' = rows
          /\ toasts' = toasts \o <<"Warning", "Assessment Complete">>
          /\ loading /\ ~loading'
          /\ log' = log
          /\ closure' = NULL]_vars

\* The insert of a signed-in user's submission has failed: the result is
\* displayed, the session is in the local history, no row is stored.
C17_Witness ==
    /\ toasts = <<"Warning", "Assessment Complete">>
    /\ prediction # NULL
    /\ Len(history) = 1
    /\ history[1].result = Value(prediction)
    /\ Cardinality(Calls("insert")) = 1
    /\ rows = <<>>
    /\ ~loading

\* C18: when two saveSession calls run at the same time on a stored
\* history of fewer than 9 entries, both sessions are in the stored history
\* once both calls have finished.
C18_BothSessionsKept ==
    ( /\ \A tab \in Tabs : tabPc[tab] = "done"
      /\ \A tab \in Tabs : Len(tabLocal[tab]) - 1 < 9 )
    => \A tab \in Tabs :
          \E i \in DOMAIN history : history[i] = tabLocal[tab][1]

\* C19: the legacy and the current scoring routine are not equivalent: among
\* the inputs valid for both (age 2 to 12, gender, ten responses) there is
\* one on which they return different riskLevel values.
C19_NotEquivalent ==
    \E fd \in ValidInputs :
        /\ fd.age \in MinAge..LegacyMaxAge
        /\ legacyCalculatePrediction(fd).riskLevel
             # calculatePrediction(fd, now).riskLevel

\* The current routine was called on such an input: it says Medium where the
\* legacy routine says High.
C19_Witness ==
    /\ CalledOnValid
    /\ formData.age <= 12
    /\ CalcResult.riskLevel = "Medium"
    /\ legacyCalculatePrediction(formData).riskLevel = "High"

\* One statement on prediction_results: a SELECT returns to a sender without
\* the admin role only rows whose user_id is the sender, so rows of others
\* come back to admins only, and it changes no row; an INSERT stores a row
\* only for a signed-in sender and only with the sender as user_id.
C20_Statement ==
    (selected' # selected \/ rows' # rows) =>
        LET statement == Value(selected')
            by == statement.by
            isAdmin == <<by, "admin">> \in userRoles
        IN  /\ (statement.op = "select") =>
                 /\ rows' = rows
                 /\ \A i \in DOMAIN statement.rows :
                      /\ \E k \in DOMAIN rows : rows[k] = statement.rows[i]
                      /\ (statement.rows[i].user_id # by) => isAdmin
                 /\ (by = "no-user" /\ ~isAdmin) => (statement.rows = <<>>)
            /\ (statement.op = "insert") =>
                 /\ rows' = rows \o statement.rows
                 /\ \A i \in DOMAIN statement.rows :
                      /\ by # "no-user"
                      /\ statement.rows[i].user_id = by

\* C20: prediction rows are isolated per user.  Through any sequence of
\* inserts, selects and role changes, every row a user without the admin
\* role reads has that user's user_id, a user inserts only rows whose
\* user_id is that user, and only holders of the admin role read rows of
\* other users.
C20_RowsIsolated == [][C20_Statement]_vars

\* Rows of user-1 and of user-2 are stored; user-1, who is not an admin,
\* has selected and got user-1's row only.
C20_Witness ==
    /\ selected # NULL
    /\ Value(selected).op = "select"
    /\ Value(selected).by = "user-1"
    /\ <<"user-1", "admin">> \notin userRoles
    /\ Len(Value(selected).rows) = 1
    /\ Len(rows) = 2
    /\ \E i \in DOMAIN rows : rows[i].user_id = "user-2"

-----------------------------------------------------------------------------
(* deleteSession *)

\* The entries of a history in their order, without those of one id.
RECURSIVE C21_Without(_, _)
C21_Without(entries, id) ==
    IF entries = <<>> THEN <<>>
    ELSE IF Head(entries).id = id
         THEN C21_Without(Tail(entries), id)
         ELSE <<Head(entries)>> \o C21_Without(Tail(entries), id)

\* The ids of a history.
C21_Ids(entries) == {entries[i].id : i \in DOMAIN entries}

\* deleteSession on the stored history, for the id of every session saved so
\* far and of one never saved: the entries of that id are gone, the others
\* are there in their order, and an id that is not stored changes nothing.
C21_DeleteExact ==
    \A t \in 1..(now + 1) :
        LET id == <<"session_", t>>
            after == deleteSession(history, id)
        IN  /\ after = C21_Without(history, id)
            /\ id \notin C21_Ids(after)
            /\ C21_Ids(after) = C21_Ids(history) \ {id}
            /\ (id \notin C21_Ids(history)) => (after = history)

\* A call that changes the stored history without saving either empties it
\* (clearSessionHistory) or takes out the entries of one id.
C21_DeleteStep ==
    (now' = now /\ history' # history /\ history' # <<>>) =>
        \E id \in C21_Ids(history) :
            /\ history' = C21_Without(history, id)
            /\ Len(history') = Len(history) - 1

\* C21: deleteSession(id) removes exactly the history entries whose id is
\* id and leaves every other entry, and the most-recent-first order of the
\* remaining ones, unchanged; with an id that is not in the history it
\* changes nothing.
C21_DeleteSession == []C21_DeleteExact /\ [][C21_DeleteStep]_vars

\* Of three saved sessions the second was deleted: the third and the first
\* are left, in that order.
C21_Witness ==
    /\ now = 3
    /\ Len(history) = 2
    /\ history[1].id = SessionId(3)
    /\ history[2].id = SessionId(1)

-----------------------------------------------------------------------------
(* Monotonicity and range of the score *)

\* The next category: never -> rarely -> sometimes -> often -> always.
C22_Raise(response) ==
    CASE response = "never" -> "rarely"
      [] response = "rarely" -> "sometimes"
      [] response = "sometimes" -> "often"
      [] response = "often" -> "always"

\* The input with response i raised by one category, all else unchanged.
C22_Raised(fd, i) ==
    [fd EXCEPT !.responses[i] = C22_Raise(fd.responses[i])]

\* The responses that can be raised.
C22_Raisable(fd) == {i \in 1..10 : fd.responses[i] # "always"}

\* The riskPercentage the routine returns for an input, at the state's clock.
C22_RiskPercentage(fd) == calculatePrediction(fd, now).riskPercentage

\* Number of responses in {never, rarely}, counted on the input.
C22_LowAnswers(responses) ==
    Cardinality({i \in 1..Len(responses) :
                    responses[i] = "never" \/ responses[i] = "rarely"})

\* C22 as stated: for every valid input, raising any single response by one
\* category never lowers riskPercentage.
C22_Monotone ==
    CalledOnValid =>
        \A i \in C22_Raisable(formData) :
            C22_RiskPercentage(C22_Raised(formData, i))
                >= CalcResult.riskPercentage

\* C22 as amended: for every valid input, raising a single response by one
\* category raises riskPercentage, except where it ends the low-engagement
\* bonus: raising a 'rarely' to 'sometimes' on an input with exactly seven
\* responses in {never, rarely} lowers riskPercentage by 2.875 (the bonus of
\* 5 lost, 2.125 gained for the point of score).
C22_MonotoneButLowEngagement ==
    CalledOnValid =>
        \A i \in C22_Raisable(formData) :
            LET after == C22_RiskPercentage(C22_Raised(formData, i))
                before == CalcResult.riskPercentage
            IN  IF formData.responses[i] = "rarely"
                   /\ C22_LowAnswers(formData.responses) = 7
                THEN 1000 * (before - after) = 2875 * 200
                ELSE after > before

\* A call on an input with exactly seven responses in {never, rarely}:
\* raising one of its 'rarely' gives a lower riskPercentage.
C22_Witness ==
    /\ CalledOnValid
    /\ C22_LowAnswers(formData.responses) = 7
    /\ \E i \in 1..10 :
          /\ formData.responses[i] = "rarely"
          /\ C22_RiskPercentage(C22_Raised(formData, i))
                < CalcResult.riskPercentage

\* The riskScore before the clamp, from the input alone, in 1/20000:
\* 0.85 * totalScore / 40 + 0.15 * (adjustments) + 0.1 with six or more
\* often/always + 0.05 with seven or more never/rarely.
C23_Unclamped(fd) ==
    C8_Base(fd)
    + (IF HighAnswers(fd.responses) >= 6 THEN 2000 ELSE 0)
    + (IF C22_LowAnswers(fd.responses) >= 7 THEN 1000 ELSE 0)

\* C23: for every valid input the unclamped riskScore lies in [0.05, 0.965];
\* the high-risk and the low-engagement bonus are never both applied; and
\* the clamp to [0,1] changes nothing: riskPercentage is the unclamped
\* value, between 5 and 96.5.
C23_ClampNeverActs ==
    CalledOnValid =>
        /\ 100 * C23_Unclamped(formData) >= 5 * 20000
        /\ 1000 * C23_Unclamped(formData) <= 965 * 20000
        /\ ~(HighAnswers(formData.responses) >= 6
             /\ C22_LowAnswers(formData.responses) >= 7)
        /\ UnclampedRiskScore(formData) = C23_Unclamped(formData)
        /\ CalcResult.riskPercentage = C23_Unclamped(formData)
        /\ 1 * CalcResult.riskPercentage >= 5 * 200
        /\ 10 * CalcResult.riskPercentage <= 965 * 200

\* The largest score: ten 'always' for a boy of at most three years, 96.5.
C23_Witness ==
    /\ CalledOnValid
    /\ formData.responses = AllAnswers("always")
    /\ formData.age <= 3 /\ formData.gender = "M"
    /\ 10 * CalcResult.riskPercentage = 965 * 200

-----------------------------------------------------------------------------
(* The steps of the wizard *)

\* One step of the wizard.  currentStep moves by one question at a time, or
\* back to 0 by the reset, so the review step is entered from question 10
\* only, after questions 1..10 in order; submit is pressed (loading becomes
\* true) at step 11 with no result displayed; the reset (the displayed result
\* is taken away) gives step 0, age 2, gender M, ten 'sometimes', and leaves
\* the local history as it is.
C24_WizardStep ==
    /\ (currentStep' # currentStep) =>
          \/ currentStep' = currentStep + 1
          \/ currentStep' = currentStep - 1
          \/ currentStep' = 0 /\ prediction # <<>> /\ prediction' = <<>>
    /\ (currentStep' = 11 /\ currentStep # 11) => (currentStep = 10)
    /\ (currentStep' = 1 /\ currentStep # 1) => (currentStep \in {0, 2})
    /\ (~loading /\ loading') =>
          /\ currentStep = 11
          /\ prediction = <<>>
          /\ currentStep' = 11
    /\ (prediction # <<>> /\ prediction' = <<>>) =>
          /\ currentStep' = 0
          /\ formData' = [age |-> 2, gender |-> "M",
                          responses |-> [i \in 1..10 |-> "sometimes"]]
          /\ history' = history

\* C24: in every reachable state of the wizard currentStep is an integer in
\* [0,11]; submit is triggered only at the review step while no result is
\* displayed, and that step is reached only through the question steps in
\* order; resetAssessment returns to step 0 with the default input and no
\* result, and leaves the local history unchanged.
C24_WizardSteps == [](currentStep \in 0..11) /\ [][C24_WizardStep]_vars

\* After a submission of a changed form, the reset has happened: step 0, the
\* default input, no result, the session still in the history.
C24_Witness ==
    /\ currentStep = 0
    /\ prediction = <<>>
    /\ formData = DefaultFormData
    /\ Len(history) = 1
    /\ history[1].age # 2
    /\ ~loading

-----------------------------------------------------------------------------
(* Progress of a submission *)

\* C25: every submission eventually finishes.  Where the timer fires and the
\* insert returns, a pressed submit (loading is true) leads to loading being
\* false again, and the running delay leads to a displayed result, whether
\* the insert succeeds, fails or is skipped, and also when the reset is
\* pressed before the insert has returned.
C25_SubmissionFinishes ==
    /\ loading ~> ~loading
    /\ (submitPc = "delay") ~> (prediction # <<>>)

\* "Take New Assessment" was pressed while the insert has not returned yet.
C25_Witness ==
    /\ submitPc = "insert"
    /\ loading
    /\ prediction = <<>>
    /\ currentStep = 0
    /\ Len(history) = 1

-----------------------------------------------------------------------------
(* C26 *)

\* The four conditions under which the route lets its children through.
C26_Admitted ==
    /\ ~route.isLoading
    /\ route.user # "no-user"
    /\ route.isApproved
    /\ (route.requireAdmin => route.isAdmin)

\* The redirect the route owes to the current values.
C26_Target ==
    IF route.user = "no-user" THEN "/auth"
    ELSE IF route.requireAdmin /\ ~route.isAdmin THEN "/"
    ELSE IF ~route.isApproved THEN "/auth"
    ELSE "none"

\* C26: ProtectedRoute renders its children only where isLoading is false, a
\* user is present, the user is approved and requireAdmin implies isAdmin.
\* Once the effect of a render has run: in a non-loading state either the
\* children are rendered or a redirect is issued, never both and never
\* neither, and the redirect goes to /auth without a user, to / where
\* requireAdmin is set and the user is no admin, otherwise to /auth for a
\* user who is not approved; while isLoading is true the children are not
\* rendered and no redirect is issued.
C26_ChildrenOrRedirect ==
    /\ (route.rendered = "children" /\ route.pc # "render") => C26_Admitted
    /\ (route.pc = "idle") =>
         /\ route.isLoading =>
              /\ route.rendered = "spinner"
              /\ route.navigated = "none"
         /\ ~route.isLoading =>
              /\ (route.rendered = "children") = (route.navigated = "none")
              /\ (route.rendered = "children") = C26_Admitted
              /\ route.navigated = C26_Target

\* An admin route has rendered for a signed-in user who is neither approved
\* nor an admin, and its effect has navigated to /.
C26_Witness ==
    /\ route.pc = "idle"
    /\ route.requireAdmin /\ ~route.isLoading
    /\ route.user = "user-1" /\ ~route.isApproved /\ ~route.isAdmin
    /\ route.rendered = "null"
    /\ route.navigated = "/"

-----------------------------------------------------------------------------
(* C27 *)

\* The transitions of approval_status the panel's buttons stand for.
C27_PanelTransitions ==
    {<<"pending", "approved">>, <<"pending", "rejected">>,
     <<"rejected", "approved">>}

\* One step of the database as the admin sessions drive it: the
\* approval_status of an existing profile stays, or moves along one of the
\* three transitions; an approved profile does not become rejected.
C27_Transition ==
    \A id \in {"user-1", "user-2"} :
        /\ (profiles[id] = "approved") => (profiles'[id] # "rejected")
        /\ (profiles[id] # "none" /\ profiles'[id] # profiles[id])
             => <<profiles[id], profiles'[id]>> \in C27_PanelTransitions

-----------------------------------------------------------------------------
(* C28 *)

\* Session s has come to rest: none of its fetchProfiles calls is in
\* flight and none has failed, every realtime event has been delivered to
\* it, and no session has an update on its way.
C28_AtRest(s) ==
    /\ panel[s].mounted
    /\ panel[s].fetches = <<>>
    /\ panel[s].events = 0
    /\ ~panel[s].failed
    /\ \A o \in {"admin-1", "admin-2"} : panel[o].writes = <<>>

\* C28: the admin panel's profile list converges to the database.  Once no
\* fetchProfiles call of a session is in flight and no profile change is
\* still to come, the profiles the session displays are the profiles in the
\* database: the response of an older call has not replaced the response of
\* a newer one.
C28_ListConverges ==
    \A s \in {"admin-1", "admin-2"} :
        C28_AtRest(s) => (panel[s].profiles = profiles)

-----------------------------------------------------------------------------
(* C29 *)

\* The step changes the approval_status of a profile that exists, or
\* removes the profile.
C29_ProfileChanged ==
    \E id \in {"user-1", "user-2"} :
        profiles[id] # "none" /\ profiles'[id] # profiles[id]

\* A step that changes an existing profile or user_roles is a statement
\* whose sender is the service role or holds the admin role when sending.
C29_Step ==
    (C29_ProfileChanged \/ userRoles' # userRoles) =>
        /\ sent' # sent
        /\ LET by == Value(sent').by
           IN  by = "service_role" \/ <<by, "admin">> \in userRoles

\* C29: no database operation of a user without the admin role changes the
\* approval_status of an existing profile, the sender's own included, or
\* adds, changes or removes a row of user_roles: a user who is no admin can
\* neither approve themselves nor make anyone an admin.
C29_AdminsOnly == [][C29_Step]_vars

\* user-1, who holds no role, has sent an update that approves user-1's own
\* pending profile, while user-2 is an admin: the profile is still pending.
C29_Witness ==
    /\ sent # <<>>
    /\ sent[1].by = "user-1" /\ sent[1].table = "profiles"
    /\ sent[1].op = "update" /\ sent[1].row = <<"user-1", "approved">>
    /\ profiles["user-1"] = "pending"
    /\ userRoles = {<<"user-2", "admin">>}

====
